---------------------------- MODULE Spec2Model ----------------------------
(***************************************************************************)
(* TaggerNews: the dual-mode scraper state machine (backfill, continuous   *)
(* forward walk, curated-list sweep), its durable per-mode checkpoints in  *)
(* scraper_state, and the advisory-lock initialisation of the continuous   *)
(* checkpoint.                                                             *)
(*                                                                         *)
(* The store is PostgreSQL at READ COMMITTED: every job owns one session   *)
(* (one transaction at a time); flushed writes are pending in tx[s] until  *)
(* session.commit() and are discarded when the job raises.                 *)
(***************************************************************************)
EXTENDS Integers, FiniteSets, Sequences, TLC

(***************************************************************************)
(* Bounds of the model.                                                    *)
(***************************************************************************)
MaxItem == 5                       \* largest upstream item id ever minted
scraper_backfill_batch_size == 2   \* config default 100, scaled down
scraper_backfill_max_batches == 2  \* config default 50, scaled down
scraper_continuous_batch_size == 2 \* config default 50, scaled down
MaxOdd == 1                        \* items of one upstream that are not recent live stories
Now == 100                         \* datetime.now(UTC), in days
MaxBurst == 3                      \* items minted while the scraper runs
NumSeeds == 2                      \* distinct per-process string-hash seeds
MaxInitial == 2                    \* initial_item_id values of the lock callers
MaxStories == 3                    \* stories rows the enrichment tables hold
MaxArrivals == 2                   \* stories the scraper stores while jobs race
MaxTags == 3                       \* tags rows alive at one time
summarization_batch_size == 2      \* config default 5, scaled down
MaxOutages == 1                    \* oracle outages in one run

scraper_backfill_days == 7
LockModulus == 2147483647

Ids == 1..MaxItem
InitialMaxItem == MaxItem - MaxBurst
NoTarget == -1                     \* target_timestamp = None
NoRow == [id |-> "none"]           \* scalar_one_or_none() -> None

STATE_BACKFILL == "backfill"
STATE_CONTINUOUS == "continuous"

Callers == {"caller1", "caller2"}
Jobs == {STATE_BACKFILL, STATE_CONTINUOUS}
Sessions == Jobs \cup Callers

(***************************************************************************)
(* Upstream feed.  An item is what GET item/<id>.json returns.             *)
(***************************************************************************)
\* `flaky`: requests for the item may exhaust their retries (timeout, 429, 5xx)
RecentStory == [type |-> "story", dead |-> FALSE, time |-> Now - 3, flaky |-> FALSE]
OldStory == [type |-> "story", dead |-> FALSE, time |-> Now - 40, flaky |-> FALSE]
DeadStory == [type |-> "story", dead |-> TRUE, time |-> Now - 3, flaky |-> FALSE]
Comment == [type |-> "comment", dead |-> FALSE, time |-> Now - 3, flaky |-> FALSE]
FlakyStory == [type |-> "story", dead |-> FALSE, time |-> Now - 3, flaky |-> TRUE]
ItemKinds == {RecentStory, OldStory, DeadStory, Comment, FlakyStory}

Upstreams ==
    {f \in [Ids -> ItemKinds] :
        Cardinality({i \in Ids : f[i] /= RecentStory}) <= MaxOdd}

\* top + new + best story ids, deduplicated: an old favourite and the newest
CuratedIds == {1, MaxItem}

VARIABLES
    hn,             \* upstream: items, maxitem, curated (top+new+best)
    stories,        \* committed stories table: hn_id -> number of rows
    scraper_state,  \* committed scraper_state table: set of rows
    tx,             \* per session: pending (flushed, uncommitted) writes
    bf,             \* locals of the running/last run_backfill call
    ct,             \* locals of the running/last run_continuous_scrape call
    sched,          \* SchedulerService: _backfill_complete
    lk,             \* locals of two get_or_create_state_with_lock callers
    advisory_locks, \* held pg_advisory_xact_lock keys: <<lock_id, session>>
    summaries,      \* committed summaries table: story -> number of rows
    flags,          \* committed stories.is_summarized / is_tagged
    tags,           \* committed tags table: rows [id, slug, usage_count]
    story_tags,     \* committed story_tags table: <<story, tag id>> -> rows
    proposals,      \* committed tag_proposals table
    etx,            \* per enrichment session: pending writes
    ej,             \* locals of the jobs that run generate_missing_summaries
    oracle,         \* the summarizer's upstream: outage, stories it rejects
    rq,             \* locals of the API requests on a proposal, one session each
    pipeline,       \* settings and the last run_analysis_pipeline call
    fetch,          \* locals of one HNClient._fetch_with_retry call
    hc,             \* the HNClient of each job: semaphore and gathered tasks
    catalog,        \* the query surface's view: story -> tags rows it carries
    query,          \* the last listing request and its response
    scheduler,      \* SchedulerService: registered jobs and what their ticks did
    ar,             \* one run_analysis_pipeline call, step by step, and its tables
    ov,             \* locals of two overlapping run_continuous_scrape calls
    xq              \* locals of the execute requests on the proposal, one session each

svars == <<hn, stories, scraper_state, tx, bf, ct, sched, lk, advisory_locks>>
evars == <<summaries, flags, tags, story_tags, proposals, etx, ej,
           oracle>>
avars == <<rq, pipeline, fetch>>
qvars == <<hc, catalog, query>>
wvars == <<scheduler, ar, ov, xq>>
vars == <<svars, evars, avars, qvars, wvars>>

(***************************************************************************)
(* Session view and repository operations.                                 *)
(***************************************************************************)
EmptyTx == [stories |-> {}, rows |-> {}]

\* rows of scraper_state a session reads: committed rows overlaid by its own
\* pending inserts / updates
VisibleRows(s) ==
    {r \in scraper_state : ~ \E p \in tx[s].rows : p.id = r.id} \cup tx[s].rows

get_state(s, state_type) ==
    LET m == {r \in VisibleRows(s) : r.state_type = state_type}
    IN  IF m = {} THEN NoRow ELSE CHOOSE r \in m : TRUE

\* the pending rows of s after create_or_update_state
create_or_update_state(s, state_type, current_item_id, target_timestamp, status) ==
    LET existing == get_state(s, state_type)
        updated == [existing EXCEPT
                      !.current_item_id = current_item_id,
                      !.target_timestamp =
                          IF target_timestamp /= NoTarget
                          THEN target_timestamp ELSE @,
                      !.status = status]
        created == [id |-> s, state_type |-> state_type,
                    current_item_id |-> current_item_id,
                    target_timestamp |-> target_timestamp,
                    status |-> status,
                    items_processed |-> 0, stories_found |-> 0]
    IN  IF existing /= NoRow
        THEN {p \in tx[s].rows : p.id /= existing.id} \cup {updated}
        ELSE tx[s].rows \cup {created}

\* the pending rows after increment_counters, applied to pending rows `rows`
increment_counters(rows, state_type, items_processed, stories_found) ==
    {IF r.state_type = state_type
     THEN [r EXCEPT !.items_processed = @ + items_processed,
                    !.stories_found = @ + stories_found]
     ELSE r : r \in rows}

get_existing_hn_ids(s, hn_ids) ==
    {i \in hn_ids : stories[i] > 0 \/ i \in tx[s].stories}

\* a plain INSERT in place of the upsert: every key gets a new row
insert_many(s, hn_ids) ==
    {i \in hn_ids : i \notin tx[s].stories}

\* INSERT ... ON CONFLICT (hn_id) DO UPDATE: the hn_ids that get a new row
upsert_many(s, hn_ids) ==
    {i \in hn_ids : stories[i] = 0 /\ i \notin tx[s].stories}

\* the statement waits while another transaction holds an uncommitted row
\* with one of the keys
UpsertBlocked(s, hn_ids) ==
    \E t \in Sessions \ {s} : tx[t].stories \cap hn_ids /= {}

\* session.commit(): pending writes become the committed tables
CommitStories(s) ==
    [i \in Ids |-> IF i \in tx[s].stories THEN stories[i] + 1 ELSE stories[i]]

CommitRows(s) ==
    {r \in scraper_state : ~ \E p \in tx[s].rows : p.id = r.id} \cup tx[s].rows

ReleaseLocks(s) == {l \in advisory_locks : l[2] /= s}

(***************************************************************************)
(* Upstream client.                                                        *)
(***************************************************************************)
\* get_items_batch(ids, "story") when the fetches of `lost` fail
get_items_batch(item_ids, lost) ==
    {i \in item_ids :
        /\ i <= hn.maxitem
        /\ i \notin lost
        /\ hn.items[i].type = "story"
        /\ ~ hn.items[i].dead}

\* the sets of item fetches that may fail in one batch (get_item -> None)
FetchFailures(item_ids) ==
    SUBSET {i \in item_ids : i <= hn.maxitem /\ hn.items[i].flaky}

hn_created_at(i) == hn.items[i].time

(***************************************************************************)
(* Shared kernel, _process_item_batch.                                     *)
(***************************************************************************)
\* lines 341-351: the stories that survive the target cut, and the flag
target_filter(fetched, target_timestamp) ==
    IF /\ target_timestamp /= NoTarget
       /\ fetched /= {}
       /\ \E o \in fetched :
            /\ \A x \in fetched : hn_created_at(o) <= hn_created_at(x)
            /\ hn_created_at(o) < target_timestamp
    THEN [stories |-> {x \in fetched : hn_created_at(x) >= target_timestamp},
          reached_target_date |-> TRUE]
    ELSE [stories |-> fetched, reached_target_date |-> FALSE]

\* a kernel that reports the target date but upserts the batch uncut
process_item_batch_uncut(s, item_ids, target_timestamp, lost) ==
    LET new_ids == item_ids \ get_existing_hn_ids(s, item_ids)
        fetched == get_items_batch(new_ids, lost)
        cut == target_filter(fetched, target_timestamp)
    IN  [new_ids |-> new_ids, fetched |-> fetched, stories |-> fetched,
         reached_target_date |-> cut.reached_target_date]

\* lines 322-351: existence check, fetch of the novel ids, target cut
process_item_batch(s, item_ids, target_timestamp, lost) ==
    LET new_ids == item_ids \ get_existing_hn_ids(s, item_ids)
        fetched == get_items_batch(new_ids, lost)
        cut == target_filter(fetched, target_timestamp)
    IN  IF new_ids = {}
        THEN [new_ids |-> {}, fetched |-> {}, stories |-> {},
              reached_target_date |-> FALSE]
        ELSE [new_ids |-> new_ids, fetched |-> fetched,
              stories |-> cut.stories,
              reached_target_date |-> cut.reached_target_date]

Max(a, b) == IF a >= b THEN a ELSE b
Min(a, b) == IF a <= b THEN a ELSE b

backfill_target_timestamp == Now - scraper_backfill_days

(***************************************************************************)
(* Enrichment data: stories to enrich, tag names, slugs, proposals.        *)
(***************************************************************************)
StoryIds == 1..MaxStories
TagIds == 1..MaxTags

\* stories.score: get_stories_without_summary orders by it, highest first
score(story) == story

\* tag names as the oracle spells them, one character per element
NameGo == <<"G", "o">>
NameGoBang == <<"g", "o", "!">>
NameWeb == <<"W", "e", "b">>
TagNames == {NameGo, NameGoBang, NameWeb}
NoName == << >>

\* str.lower() on the characters in use
lower(c) == IF c = "G" THEN "g" ELSE IF c = "W" THEN "w" ELSE c

\* [a-z0-9]
is_slug_char(c) == c \in {"g", "o", "w", "e", "b"}

\* re.sub(r"[^a-z0-9]+", "-", slug): every run of other characters -> "-"
RECURSIVE collapse(_, _)
collapse(name, in_run) ==
    IF name = << >> THEN << >>
    ELSE IF is_slug_char(Head(name))
         THEN <<Head(name)>> \o collapse(Tail(name), FALSE)
         ELSE IF in_run THEN collapse(Tail(name), TRUE)
              ELSE <<"-">> \o collapse(Tail(name), TRUE)

\* str.strip("-")
RECURSIVE strip_dashes(_)
strip_dashes(slug) ==
    IF slug = << >> THEN << >>
    ELSE IF Head(slug) = "-" THEN strip_dashes(Tail(slug))
    ELSE IF slug[Len(slug)] = "-"
         THEN strip_dashes(SubSeq(slug, 1, Len(slug) - 1))
         ELSE slug

\* tag_taxonomy.normalize_slug
normalize_slug(name) ==
    strip_dashes(collapse([k \in 1..Len(name) |-> lower(name[k])], FALSE))

\* FlatTags.all_tags() of one oracle answer: no tag, two names of one slug,
\* two tags
OracleTagLists ==
    {<< >>, <<NameGo, NameGoBang>>, <<NameGoBang, NameWeb>>}

NoResult == [ok |-> FALSE, tag_names |-> << >>]   \* summarize_story -> None

\* the sessions that run generate_missing_summaries
EnrichJobs == {"continuous", "recovery"}

EmptyEtx == [summaries |-> {}, tags |-> {}, story_tags |-> {}, flagged |-> {}]

EnrichIdle == [pc |-> "idle", selected |-> << >>, result |-> NoResult,
               count |-> 0, status |-> "none"]

\* tag_proposals rows; data as the proposer writes it
NoData == [proposal_type |-> "none"]
NoProposal == [status |-> "none", data |-> NoData, result |-> "none",
               executed_at |-> FALSE]
ProposalShapes ==
    {[proposal_type |-> "merge_tags", source_tags |-> {NameGo},
      target_tag |-> NameWeb],
     [proposal_type |-> "retire_tag", tag_name |-> NameWeb,
      replacement_tag |-> NoName],
     [proposal_type |-> "retire_tag", tag_name |-> NameGo,
      replacement_tag |-> NameWeb],
     [proposal_type |-> "create_tag", tag_name |-> NameGoBang]}

\* the API requests that review the proposal, one session each
NumRequests == 2
Requests == 1..NumRequests
RequestIdle == [pc |-> "idle", response |-> "none"]

\* Settings of the agents, and what a run_analysis_pipeline call stored
agent_auto_approve_max_affected == 5
MaxProposals == 2                  \* proposals the proposer returns in one run
RunModes == {"analysis", "proposal", "auto-apply"}
ProposalTypes == {"merge_tags", "retire_tag", "create_tag", "split_tag"}
Priorities == {"low", "medium", "high"}
\* affected_stories_count: none, the limit, one above it
AffectedCounts == {0, agent_auto_approve_max_affected,
                   agent_auto_approve_max_affected + 1}
NoRun == [agent_enable_auto_approve |-> FALSE, proposals_data |-> << >>,
          mode |-> "none", stored |-> << >>, status |-> "none"]

\* HNClient._fetch_with_retry: its arguments and the upstream's answers
MaxRetries == 3
MaxBaseDelay == 2
HTTPStatuses == {"200", "404", "429", "500"}
FetchErrors == {"TimeoutError", "ClientError"}
FetchIdle == [pc |-> "idle", max_retries |-> 0, base_delay |-> 0,
              attempt |-> 0, requests |-> 0, response |-> "none",
              waited |-> 0, slept |-> 0, result |-> "none"]

\* no request, no pipeline run and no fetch in flight
AgentsIdle ==
    /\ rq = [r \in Requests |-> RequestIdle]
    /\ pipeline = NoRun
    /\ fetch = FetchIdle

\* HNClient(): every ScraperService builds one, with a semaphore of its own;
\* get_items_batch gathers one task per item id
max_concurrent == 2
GatherSize == 3
default_max_retries == 3
Tasks == 1..GatherSize
TaskIdle == [pc |-> "idle", attempt |-> 0]
ClientIdle == [semaphore |-> max_concurrent, task |-> [t \in Tasks |-> TaskIdle]]

\* The query surface: stories in score order, tags rows by name and level
QStories == {"A", "B", "C"}
by_score_desc == <<"A", "B", "C">>
Tech == [name |-> "Tech", level |-> 1]
Business == [name |-> "Business", level |-> 1]
AIML == [name |-> "AI/ML", level |-> 2]
Finance == [name |-> "Finance", level |-> 2]
Rust == [name |-> "Rust", level |-> 3]
QTags == {Tech, Business, AIML, Finance, Rust}
ScenarioCatalog ==
    [s \in QStories |-> IF s = "A" THEN {Tech, AIML}
                        ELSE IF s = "B" THEN {Tech, Finance}
                        ELSE {Business, AIML}]
EmptyFilter == [l1_include |-> {}, l1_exclude |-> {}, l2_include |-> {},
                l2_exclude |-> {}, l3_include |-> {}]
\* the lists a client sends: names of the level and of another level
TagFilters ==
    [l1_include : SUBSET {"Tech", "Business", "AI/ML"},
     l1_exclude : SUBSET {"Tech", "Business"},
     l2_include : SUBSET {"AI/ML", "Finance", "Tech"},
     l2_exclude : SUBSET {"AI/ML", "Finance"},
     l3_include : SUBSET {"Rust"}]
MaxLimit == 2                      \* le=100 of the limit parameter, scaled
Offsets == {0, 1}
Limits == {1, MaxLimit, MaxLimit + 1}
NoQuery == [endpoint |-> "none", tag_filter |-> EmptyFilter, offset |-> 0,
            limit |-> 0, status |-> "none", stories |-> << >>]

\* SchedulerService: the ids of the jobs start() registers, the exceptions a
\* job body can raise, and the ticks one behaviour follows
JobIds == {"enhanced_backfill", "continuous_scrape", "recovery_job",
           "weekly_agent_analysis"}
Exceptions == {"IntegrityError", "TimeoutError", "ValueError"}
MaxTicks == 4
SchedulerIdle == [running |-> FALSE, jobs |-> {}, backfill_complete |-> FALSE,
                  history |-> << >>]

\* AgentOrchestrator.run_analysis_pipeline on its session: what the session
\* has flushed, what is committed, and the kinds of exception a step raises:
\* one that leaves the transaction usable, one that aborts it
ErrorKinds == {"application", "database"}
NoTables == [run |-> "none", proposals |-> << >>]
RunIdle == [pc |-> "idle", mode |-> "none", enabled |-> FALSE,
            proposals_data |-> << >>, i |-> 1, flushed |-> NoTables,
            committed |-> NoTables, raised |-> "none", raised_at |-> "none"]

\* two scheduler instances, each running run_continuous_scrape on a session
\* of its own
OverlapIdle == [pc |-> "idle", max_item |-> 0, current_id |-> 0]

\* an execute request before it starts
ExecuteIdle == [pc |-> "idle", pending |-> {}, result |-> "none",
                wrote |-> FALSE, marked |-> FALSE, response |-> "none"]

\* no scheduler started
WorkersIdle ==
    /\ scheduler = SchedulerIdle
    /\ ar = RunIdle
    /\ ov = [p \in Callers |-> OverlapIdle]
    /\ xq = [r \in Requests |-> ExecuteIdle]

\* no job has fetched anything yet
ServiceIdle ==
    /\ hc = [c \in Jobs |-> ClientIdle]
    /\ catalog = ScenarioCatalog
    /\ query = NoQuery
    /\ WorkersIdle

\* the enrichment tables of a fresh database
EnrichEmpty ==
    /\ summaries = [x \in StoryIds |-> 0]
    /\ flags = [x \in StoryIds |-> [is_summarized |-> FALSE, is_tagged |-> FALSE]]
    /\ tags = {}
    /\ story_tags = [x \in StoryIds \X TagIds |-> 0]
    /\ proposals = NoProposal
    /\ etx = [j \in EnrichJobs |-> EmptyEtx]
    /\ ej = [j \in EnrichJobs |-> EnrichIdle]

(***************************************************************************)
(* Initial state: a fresh database, an idle scheduler, and an upstream     *)
(* that has minted at least one item.                                      *)
(***************************************************************************)
NoKernel == [new_ids |-> {}, fetched |-> {}, stories |-> {},
             reached_target_date |-> FALSE]

BackfillIdle ==
    [pc |-> "idle", current_id |-> 0, batches_done |-> 0,
     reached_target |-> FALSE, batch_ids |-> {}, kernel |-> NoKernel,
     batches_processed |-> 0, status |-> "none", requested |-> FALSE,
     resumed |-> FALSE, stop |-> "none"]

ContinuousIdle ==
    [pc |-> "idle", max_item |-> 0, last_processed |-> 0, current_id |-> 0,
     batch_ids |-> {}, kernel |-> NoKernel, scanned |-> << >>,
     was_created |-> FALSE, status |-> "none"]

CallerInit(seed, initial) ==
    [pc |-> "start", seed |-> seed, initial_item_id |-> initial,
     lock_id |-> -1, created |-> "none"]

Init ==
    /\ hn \in [items : Upstreams, maxitem : {InitialMaxItem},
               curated : {CuratedIds}]
    /\ stories = [i \in Ids |-> 0]
    /\ scraper_state = {}
    /\ tx = [s \in Sessions |-> EmptyTx]
    /\ bf = BackfillIdle
    /\ ct = ContinuousIdle
    /\ sched = [backfill_complete |-> FALSE, hash_seed |-> 1]
    /\ lk = [p \in Callers |-> CallerInit(1, 1)]
    /\ advisory_locks = {}
    /\ EnrichEmpty
    /\ AgentsIdle
    /\ ServiceIdle
    /\ oracle = [outage |-> FALSE, outages |-> 0, broken |-> {}]

(***************************************************************************)
(* The upstream mints a burst of new item ids.                             *)
(***************************************************************************)
UpstreamMint ==
    /\ hn.maxitem = InitialMaxItem
    /\ \E m \in (InitialMaxItem + 1)..MaxItem : hn' = [hn EXCEPT !.maxitem = m]
    /\ UNCHANGED <<wvars, qvars, avars, evars, stories, scraper_state, tx, bf, ct, sched, lk, advisory_locks>>

(***************************************************************************)
(* Backfill job: SchedulerService._run_backfill_job and                    *)
(* ScraperService.run_backfill.                                            *)
(***************************************************************************)
\* a run_backfill that never recognises a completed row
never_completed(state) == FALSE

\* scraper.py 201: the persisted row says the backfill is over
is_completed(state) == state.status = "completed"

\* a run_backfill that never resumes an active row
never_active(state) == FALSE

\* scraper.py 205: the persisted row says the backfill is under way
is_active(state) == state.status = "active"

\* jobs.py 31-32: the scheduler's flag short-circuits the job
BackfillJobSkip ==
    /\ bf.pc = "idle"
    /\ sched.backfill_complete
    /\ bf' = [BackfillIdle EXCEPT !.pc = "done", !.status = "skipped"]
    /\ UNCHANGED <<wvars, qvars, avars, evars, hn, stories, scraper_state, tx, ct, sched, lk, advisory_locks>>

\* scraper.py 199-203: state completed -> already_completed
BackfillAlreadyCompleted ==
    /\ bf.pc = "idle"
    /\ ~ sched.backfill_complete
    /\ LET state == get_state(STATE_BACKFILL, STATE_BACKFILL)
       IN  IF state = NoRow THEN FALSE ELSE is_completed(state)
    /\ bf' = [BackfillIdle EXCEPT !.pc = "done", !.status = "already_completed"]
    /\ sched' = [sched EXCEPT !.backfill_complete = TRUE]
    /\ UNCHANGED <<wvars, qvars, avars, evars, hn, stories, scraper_state, tx, ct, lk, advisory_locks>>

\* where the while loop of lines 235-284 goes next
BackfillLoop(current_id, reached_target) ==
    IF current_id > 0 /\ ~ reached_target THEN "fetch" ELSE "finish"

\* a resume that steps past the persisted id
resume_below(state) == state.current_item_id - 1

\* scraper.py 205-208: resume from the persisted current_item_id
resume_current_id(state) == state.current_item_id

BackfillResume ==
    /\ bf.pc = "idle"
    /\ ~ sched.backfill_complete
    /\ LET state == get_state(STATE_BACKFILL, STATE_BACKFILL)
       IN  /\ state /= NoRow
           /\ ~ is_completed(state)
           /\ is_active(state)
           /\ bf' = [BackfillIdle EXCEPT
                       !.pc = BackfillLoop(resume_current_id(state), FALSE),
                       !.current_id = resume_current_id(state),
                       !.resumed = TRUE,
                       !.status = "in_progress",
                       !.stop = IF resume_current_id(state) > 0
                                THEN "none" ELSE "exhausted"]
    /\ UNCHANGED <<wvars, qvars, avars, evars, hn, stories, scraper_state, tx, ct, sched, lk, advisory_locks>>

\* scraper.py 209-222: start fresh from maxitem
BackfillStartFresh ==
    /\ bf.pc = "idle"
    /\ ~ sched.backfill_complete
    /\ LET state == get_state(STATE_BACKFILL, STATE_BACKFILL)
       IN  IF state = NoRow THEN TRUE
           ELSE ~ is_completed(state) /\ ~ is_active(state)
    /\ LET max_item == hn.maxitem
       IN  /\ bf' = [BackfillIdle EXCEPT
                       !.pc = BackfillLoop(max_item, FALSE),
                       !.current_id = max_item,
                       !.requested = TRUE,
                       !.status = "in_progress"]
           /\ tx' = [tx EXCEPT ![STATE_BACKFILL].rows =
                       create_or_update_state(STATE_BACKFILL, STATE_BACKFILL,
                                              max_item, backfill_target_timestamp,
                                              "active")]
    /\ UNCHANGED <<wvars, qvars, avars, evars, hn, stories, scraper_state, ct, sched, lk, advisory_locks>>

\* scraper.py 211-214: maxitem could not be fetched
BackfillMaxItemError ==
    /\ bf.pc = "idle"
    /\ ~ sched.backfill_complete
    /\ LET state == get_state(STATE_BACKFILL, STATE_BACKFILL)
       IN  IF state = NoRow THEN TRUE
           ELSE ~ is_completed(state) /\ ~ is_active(state)
    /\ bf' = [BackfillIdle EXCEPT !.pc = "done", !.status = "error",
                                  !.requested = TRUE]
    /\ UNCHANGED <<wvars, qvars, avars, evars, hn, stories, scraper_state, tx, ct, sched, lk, advisory_locks>>

\* scraper.py 237-238
backfill_batch_start(current_id, batch_size) ==
    Max(1, current_id - batch_size + 1)

\* scraper.py 236-243 with 322-351: form the batch, check existence, fetch
BackfillKernelFetch ==
    /\ bf.pc = "fetch"
    /\ LET batch_start == backfill_batch_start(bf.current_id,
                                               scraper_backfill_batch_size)
           batch_ids == batch_start..bf.current_id
           new_ids == batch_ids \ get_existing_hn_ids(STATE_BACKFILL, batch_ids)
       IN  \E lost \in FetchFailures(new_ids) :
             bf' = [bf EXCEPT
                      !.pc = "write",
                      !.batch_ids = batch_ids,
                      !.kernel = process_item_batch(STATE_BACKFILL, batch_ids,
                                                    backfill_target_timestamp, lost),
                      !.requested = @ \/ new_ids /= {}]
    /\ UNCHANGED <<wvars, qvars, avars, evars, hn, stories, scraper_state, tx, ct, sched, lk, advisory_locks>>

\* a checkpoint left on the first id of the batch
backfill_first_id(batch_start) == batch_start

\* scraper.py 251
backfill_next_id(batch_start) == batch_start - 1

\* scraper.py 353-356 and 245-262: upsert, move the checkpoint, count
BackfillWrite ==
    /\ bf.pc = "write"
    /\ ~ UpsertBlocked(STATE_BACKFILL, bf.kernel.stories)
    /\ LET batch_start == backfill_batch_start(bf.current_id,
                                               scraper_backfill_batch_size)
           current_id == backfill_next_id(batch_start)
       IN  /\ tx' = [tx EXCEPT ![STATE_BACKFILL] =
                       [stories |-> @.stories \cup
                                      upsert_many(STATE_BACKFILL, bf.kernel.stories),
                        rows |-> increment_counters(
                                    create_or_update_state(
                                        STATE_BACKFILL, STATE_BACKFILL, current_id,
                                        backfill_target_timestamp, "active"),
                                    STATE_BACKFILL,
                                    Cardinality(bf.batch_ids),
                                    Cardinality(bf.kernel.stories))]]
           /\ bf' = [bf EXCEPT !.pc = "commit",
                               !.current_id = current_id,
                               !.batches_processed = @ + 1]
    /\ UNCHANGED <<wvars, qvars, avars, evars, hn, stories, scraper_state, ct, sched, lk, advisory_locks>>

\* a limit test that lets one more batch through
max_batches_exceeded(batches_done, max_batches) == batches_done > max_batches

\* scraper.py 279: the per-tick batch limit
max_batches_reached(batches_done, max_batches) == batches_done >= max_batches

\* scraper.py 263-284: commit, then the two break checks and the loop test
BackfillCommit ==
    /\ bf.pc = "commit"
    /\ stories' = CommitStories(STATE_BACKFILL)
    /\ scraper_state' = CommitRows(STATE_BACKFILL)
    /\ tx' = [tx EXCEPT ![STATE_BACKFILL] = EmptyTx]
    /\ advisory_locks' = ReleaseLocks(STATE_BACKFILL)
    /\ bf' = IF bf.kernel.reached_target_date
             THEN [bf EXCEPT !.pc = "finish", !.reached_target = TRUE,
                             !.stop = "target"]
             ELSE IF max_batches_reached(bf.batches_done + 1,
                                         scraper_backfill_max_batches)
             THEN [bf EXCEPT !.pc = "finish", !.batches_done = @ + 1,
                             !.stop = "max_batches"]
             ELSE [bf EXCEPT !.pc = BackfillLoop(bf.current_id, FALSE),
                             !.batches_done = @ + 1,
                             !.stop = IF bf.current_id > 0
                                      THEN "none" ELSE "exhausted"]
    /\ UNCHANGED <<wvars, qvars, avars, evars, hn, ct, sched, lk>>

\* a completion test that ignores the target date
backfill_is_exhausted(current_id, reached_target) == current_id <= 0

\* scraper.py 287: the completion test
backfill_is_complete(current_id, reached_target) ==
    current_id <= 0 \/ reached_target

\* scraper.py 286-298 and jobs.py 47-61: completion write, result of the tick
BackfillFinish ==
    /\ bf.pc = "finish"
    /\ IF backfill_is_complete(bf.current_id, bf.reached_target)
       THEN /\ scraper_state' =
                 {r \in scraper_state :
                    ~ \E p \in create_or_update_state(
                                 STATE_BACKFILL, STATE_BACKFILL, bf.current_id,
                                 backfill_target_timestamp, "completed") : p.id = r.id}
                 \cup create_or_update_state(
                          STATE_BACKFILL, STATE_BACKFILL, bf.current_id,
                          backfill_target_timestamp, "completed")
            /\ stories' = CommitStories(STATE_BACKFILL)
            /\ tx' = [tx EXCEPT ![STATE_BACKFILL] = EmptyTx]
            /\ bf' = [bf EXCEPT !.pc = "done", !.status = "completed"]
            /\ sched' = [sched EXCEPT !.backfill_complete = TRUE]
       ELSE /\ bf' = [bf EXCEPT !.pc = "done", !.status = "in_progress"]
            /\ UNCHANGED <<wvars, qvars, avars, evars, scraper_state, stories, tx, sched>>
    /\ advisory_locks' = ReleaseLocks(STATE_BACKFILL)
    /\ UNCHANGED <<wvars, qvars, avars, evars, hn, ct, lk>>

\* a step of the tick raises: the session closes without commit (rollback),
\* jobs.py 63-64 logs and returns
BackfillRaise ==
    /\ bf.pc \in {"fetch", "write", "commit", "finish"}
    /\ tx' = [tx EXCEPT ![STATE_BACKFILL] = EmptyTx]
    /\ advisory_locks' = ReleaseLocks(STATE_BACKFILL)
    /\ bf' = [bf EXCEPT !.pc = "done", !.status = "raised"]
    /\ UNCHANGED <<wvars, qvars, avars, evars, hn, stories, scraper_state, ct, sched, lk>>

\* the job coroutine returns to the scheduler; its locals are gone
BackfillReturn ==
    /\ bf.pc = "done"
    /\ bf' = BackfillIdle
    /\ UNCHANGED <<wvars, qvars, avars, evars, hn, stories, scraper_state, tx, ct, sched, lk, advisory_locks>>

\* the process restarts: a new SchedulerService (jobs.py 20-23)
Restart ==
    /\ bf.pc = "idle"
    /\ ct.pc = "idle"
    /\ sched.backfill_complete
    /\ sched' = [sched EXCEPT !.backfill_complete = FALSE]
    /\ UNCHANGED <<wvars, qvars, avars, evars, hn, stories, scraper_state, tx, bf, ct, lk, advisory_locks>>

(***************************************************************************)
(* get_or_create_state_with_lock (scraper_state_repo.py 33-74).            *)
(***************************************************************************)
StrCode(str) == IF str = STATE_BACKFILL THEN 1 ELSE 2

\* Python's hash() of a str is keyed by the per-process hash seed
str_hash(seed, str) == seed * 1000003 + StrCode(str)

\* line 51
lock_id(seed, state_type) == str_hash(seed, state_type) % LockModulus

\* pg_advisory_xact_lock blocks while another transaction holds the key
LockHeldByOther(s, l) == \E t \in Sessions \ {s} : <<l, t>> \in advisory_locks

\* lines 66-73: the row a caller inserts
new_state_row(s, state_type, initial_item_id) ==
    [id |-> s, state_type |-> state_type,
     current_item_id |-> initial_item_id, target_timestamp |-> NoTarget,
     status |-> "active", items_processed |-> 0, stories_found |-> 0]

\* unique index ix_scraper_state_type: an insert waits for an uncommitted row
\* of the same state_type and fails once a committed one exists
InsertWaits(s, state_type) ==
    \E t \in Sessions \ {s} : \E r \in tx[t].rows : r.state_type = state_type

UniqueViolation(state_type) ==
    \E r \in scraper_state : r.state_type = state_type

(***************************************************************************)
(* Continuous job: SchedulerService._run_continuous_scrape_job and         *)
(* ScraperService.run_continuous_scrape.                                   *)
(***************************************************************************)
\* where the while loop of lines 412-437 goes next
ContinuousLoop(current_id, max_item) ==
    IF current_id <= max_item THEN "fetch" ELSE "curated"

\* scraper.py 379-411: maxitem, get-or-create under the lock, the gap
ContinuousBegin ==
    /\ ct.pc = "idle"
    /\ LET max_item == hn.maxitem
           l == lock_id(sched.hash_seed, STATE_CONTINUOUS)
           state == get_state(STATE_CONTINUOUS, STATE_CONTINUOUS)
           was_created == state = NoRow
           last_processed == IF was_created THEN max_item - 1
                             ELSE state.current_item_id
           gap == max_item - last_processed
       IN  /\ ~ LockHeldByOther(STATE_CONTINUOUS, l)
           /\ ~ InsertWaits(STATE_CONTINUOUS, STATE_CONTINUOUS)
           /\ advisory_locks' = advisory_locks \cup {<<l, STATE_CONTINUOUS>>}
           /\ tx' = IF was_created
                    THEN [tx EXCEPT ![STATE_CONTINUOUS].rows =
                            @ \cup {new_state_row(STATE_CONTINUOUS,
                                                  STATE_CONTINUOUS,
                                                  max_item - 1)}]
                    ELSE tx
           /\ ct' = [ContinuousIdle EXCEPT
                       !.pc = IF gap > 0
                              THEN ContinuousLoop(last_processed + 1, max_item)
                              ELSE "curated",
                       !.max_item = max_item,
                       !.last_processed = last_processed,
                       !.current_id = last_processed + 1,
                       !.was_created = was_created,
                       !.status = "running"]
    /\ UNCHANGED <<wvars, qvars, avars, evars, hn, stories, scraper_state, bf, sched, lk>>

\* scraper.py 379-382: maxitem could not be fetched; the job goes on to the
\* enrichment and its commit
ContinuousMaxItemError ==
    /\ ct.pc = "idle"
    /\ ct' = [ContinuousIdle EXCEPT !.pc = "tail", !.status = "error"]
    /\ UNCHANGED <<wvars, qvars, avars, evars, hn, stories, scraper_state, tx, bf, sched, lk, advisory_locks>>

\* a batch end one id too far
continuous_batch_end_inclusive(current_id, batch_size, max_item) ==
    Min(current_id + batch_size, max_item)

\* scraper.py 413
continuous_batch_end(current_id, batch_size, max_item) ==
    Min(current_id + batch_size - 1, max_item)

RECURSIVE Ascending(_, _)
Ascending(lo, hi) == IF lo > hi THEN << >> ELSE <<lo>> \o Ascending(lo + 1, hi)

\* scraper.py 413-416 with 322-351
ContinuousKernelFetch ==
    /\ ct.pc = "fetch"
    /\ LET batch_end == continuous_batch_end(ct.current_id,
                                             scraper_continuous_batch_size,
                                             ct.max_item)
           batch_ids == ct.current_id..batch_end
           new_ids == batch_ids \ get_existing_hn_ids(STATE_CONTINUOUS, batch_ids)
       IN  \E lost \in FetchFailures(new_ids) :
             ct' = [ct EXCEPT
                      !.pc = "write",
                      !.batch_ids = batch_ids,
                      !.scanned = @ \o Ascending(ct.current_id, batch_end),
                      !.kernel = process_item_batch(STATE_CONTINUOUS, batch_ids,
                                                    NoTarget, lost)]
    /\ UNCHANGED <<wvars, qvars, avars, evars, hn, stories, scraper_state, tx, bf, sched, lk, advisory_locks>>

\* scraper.py 353-356 and 418-434: upsert, move the checkpoint, count
ContinuousWrite ==
    /\ ct.pc = "write"
    /\ ~ UpsertBlocked(STATE_CONTINUOUS, ct.kernel.stories)
    /\ LET batch_end == continuous_batch_end(ct.current_id,
                                             scraper_continuous_batch_size,
                                             ct.max_item)
       IN  /\ tx' = [tx EXCEPT ![STATE_CONTINUOUS] =
                       [stories |-> @.stories \cup
                                      upsert_many(STATE_CONTINUOUS,
                                                  ct.kernel.stories),
                        rows |-> increment_counters(
                                    create_or_update_state(
                                        STATE_CONTINUOUS, STATE_CONTINUOUS,
                                        batch_end, NoTarget, "active"),
                                    STATE_CONTINUOUS,
                                    Cardinality(ct.batch_ids),
                                    Cardinality(ct.kernel.stories))]]
           /\ ct' = [ct EXCEPT !.pc = "commit", !.current_id = batch_end + 1]
    /\ UNCHANGED <<wvars, qvars, avars, evars, hn, stories, scraper_state, bf, sched, lk, advisory_locks>>

\* scraper.py 435-437 and the loop test of 412
ContinuousCommit ==
    /\ ct.pc = "commit"
    /\ stories' = CommitStories(STATE_CONTINUOUS)
    /\ scraper_state' = CommitRows(STATE_CONTINUOUS)
    /\ tx' = [tx EXCEPT ![STATE_CONTINUOUS] = EmptyTx]
    /\ advisory_locks' = ReleaseLocks(STATE_CONTINUOUS)
    /\ ct' = [ct EXCEPT !.pc = ContinuousLoop(ct.current_id, ct.max_item)]
    /\ UNCHANGED <<wvars, qvars, avars, evars, hn, bf, sched, lk>>

\* scraper.py 462-479: top+new+best ids, existence check, fetch
CuratedFetch ==
    /\ ct.pc = "curated"
    /\ LET all_ids == {i \in hn.curated : i <= hn.maxitem}
           new_story_ids == all_ids \ get_existing_hn_ids(STATE_CONTINUOUS, all_ids)
       IN  \E lost \in FetchFailures(new_story_ids) :
             ct' = [ct EXCEPT
                      !.pc = IF get_items_batch(new_story_ids, lost) = {}
                             THEN "tail" ELSE "curated_write",
                      !.batch_ids = all_ids,
                      !.kernel = [new_ids |-> new_story_ids,
                                  fetched |-> get_items_batch(new_story_ids, lost),
                                  stories |-> get_items_batch(new_story_ids, lost),
                                  reached_target_date |-> FALSE]]
    /\ UNCHANGED <<wvars, qvars, avars, evars, hn, stories, scraper_state, tx, bf, sched, lk, advisory_locks>>

\* scraper.py 480-483
CuratedWrite ==
    /\ ct.pc = "curated_write"
    /\ ~ UpsertBlocked(STATE_CONTINUOUS, ct.kernel.stories)
    /\ tx' = [tx EXCEPT ![STATE_CONTINUOUS].stories =
                @ \cup upsert_many(STATE_CONTINUOUS, ct.kernel.stories)]
    /\ ct' = [ct EXCEPT !.pc = "tail"]
    /\ UNCHANGED <<wvars, qvars, avars, evars, hn, stories, scraper_state, bf, sched, lk, advisory_locks>>

\* jobs.py 91-97: enrichment, then the job's commit
ContinuousJobCommit ==
    /\ ct.pc = "tail"
    /\ stories' = CommitStories(STATE_CONTINUOUS)
    /\ scraper_state' = CommitRows(STATE_CONTINUOUS)
    /\ tx' = [tx EXCEPT ![STATE_CONTINUOUS] = EmptyTx]
    /\ advisory_locks' = ReleaseLocks(STATE_CONTINUOUS)
    /\ ct' = [ct EXCEPT !.pc = "done",
                        !.status = IF @ = "error" THEN "error" ELSE "ok"]
    /\ UNCHANGED <<wvars, qvars, avars, evars, hn, bf, sched, lk>>

\* a step of the tick raises: rollback, jobs.py 99-100 logs and returns
ContinuousRaise ==
    /\ ct.pc \in {"fetch", "write", "commit", "curated", "curated_write", "tail"}
    /\ tx' = [tx EXCEPT ![STATE_CONTINUOUS] = EmptyTx]
    /\ advisory_locks' = ReleaseLocks(STATE_CONTINUOUS)
    /\ ct' = [ct EXCEPT !.pc = "done", !.status = "raised"]
    /\ UNCHANGED <<wvars, qvars, avars, evars, hn, stories, scraper_state, bf, sched, lk>>

\* the job coroutine returns to the scheduler; its locals are gone
ContinuousReturn ==
    /\ ct.pc = "done"
    /\ ct' = ContinuousIdle
    /\ UNCHANGED <<wvars, qvars, avars, evars, hn, stories, scraper_state, tx, bf, sched, lk, advisory_locks>>

(***************************************************************************)
(* Two callers of get_or_create_state_with_lock("continuous", X), each in  *)
(* its own transaction, each in a process with its own string-hash seed.   *)
(***************************************************************************)
\* lines 51-57: compute the key, block until the advisory lock is granted
LockAcquire(p) ==
    /\ lk[p].pc = "start"
    /\ LET l == lock_id(lk[p].seed, STATE_CONTINUOUS)
       IN  /\ ~ LockHeldByOther(p, l)
           /\ advisory_locks' = advisory_locks \cup {<<l, p>>}
           /\ lk' = [lk EXCEPT ![p].pc = "locked", ![p].lock_id = l]
    /\ UNCHANGED <<wvars, qvars, avars, evars, hn, stories, scraper_state, tx, bf, ct, sched>>

\* lines 60-63: re-check under the lock
LockGetState(p) ==
    /\ lk[p].pc = "locked"
    /\ lk' = IF get_state(p, STATE_CONTINUOUS) /= NoRow
             THEN [lk EXCEPT ![p].pc = "returned", ![p].created = "false"]
             ELSE [lk EXCEPT ![p].pc = "insert"]
    /\ UNCHANGED <<wvars, qvars, avars, evars, hn, stories, scraper_state, tx, bf, ct, sched, advisory_locks>>

\* lines 66-74: add + flush; the unique index on state_type decides
LockInsert(p) ==
    /\ lk[p].pc = "insert"
    /\ ~ InsertWaits(p, STATE_CONTINUOUS)
    /\ IF UniqueViolation(STATE_CONTINUOUS)
       THEN /\ lk' = [lk EXCEPT ![p].pc = "done", ![p].created = "IntegrityError"]
            /\ tx' = [tx EXCEPT ![p] = EmptyTx]
            /\ advisory_locks' = ReleaseLocks(p)
       ELSE /\ lk' = [lk EXCEPT ![p].pc = "returned", ![p].created = "true"]
            /\ tx' = [tx EXCEPT ![p].rows =
                        @ \cup {new_state_row(p, STATE_CONTINUOUS,
                                              lk[p].initial_item_id)}]
            /\ UNCHANGED advisory_locks
    /\ UNCHANGED <<wvars, qvars, avars, evars, hn, stories, scraper_state, bf, ct, sched>>

\* the caller's transaction commits; its advisory lock is released
LockCommit(p) ==
    /\ lk[p].pc = "returned"
    /\ scraper_state' = CommitRows(p)
    /\ tx' = [tx EXCEPT ![p] = EmptyTx]
    /\ advisory_locks' = ReleaseLocks(p)
    /\ lk' = [lk EXCEPT ![p].pc = "done"]
    /\ UNCHANGED <<wvars, qvars, avars, evars, hn, stories, bf, ct, sched>>

InitLock ==
    /\ hn = [items |-> [i \in Ids |-> RecentStory], maxitem |-> InitialMaxItem,
             curated |-> CuratedIds]
    /\ stories = [i \in Ids |-> 0]
    /\ scraper_state = {}
    /\ tx = [s \in Sessions |-> EmptyTx]
    /\ bf = BackfillIdle
    /\ ct = ContinuousIdle
    /\ sched = [backfill_complete |-> FALSE, hash_seed |-> 1]
    /\ lk \in [Callers -> {CallerInit(seed, initial) :
                               seed \in 1..NumSeeds, initial \in 1..MaxInitial}]
    /\ advisory_locks = {}
    /\ EnrichEmpty
    /\ AgentsIdle
    /\ ServiceIdle
    /\ oracle = [outage |-> FALSE, outages |-> 0, broken |-> {}]

NextLock ==
    \E p \in Callers :
        \/ LockAcquire(p)
        \/ LockGetState(p)
        \/ LockInsert(p)
        \/ LockCommit(p)

SpecLock == InitLock /\ [][NextLock]_vars

Next ==
    \/ UpstreamMint
    \/ BackfillJobSkip
    \/ BackfillAlreadyCompleted
    \/ BackfillResume
    \/ BackfillStartFresh
    \/ BackfillMaxItemError
    \/ BackfillKernelFetch
    \/ BackfillWrite
    \/ BackfillCommit
    \/ BackfillFinish
    \/ BackfillRaise
    \/ BackfillReturn
    \/ Restart
    \/ ContinuousBegin
    \/ ContinuousMaxItemError
    \/ ContinuousKernelFetch
    \/ ContinuousWrite
    \/ ContinuousCommit
    \/ CuratedFetch
    \/ CuratedWrite
    \/ ContinuousJobCommit
    \/ ContinuousRaise
    \/ ContinuousReturn

Spec == Init /\ [][Next]_vars

(***************************************************************************)
(* Enrichment: what a session sees, and the queries of the repositories.   *)
(***************************************************************************)
StoredStories == {x \in StoryIds : stories[x] > 0}

\* tags rows a session reads: committed rows and its own flushed rows
VisibleTags(j) == tags \cup etx[j].tags

has_summary(j, story) == summaries[story] > 0 \/ story \in etx[j].summaries

is_processed(j, story) ==
    \/ story \in etx[j].flagged
    \/ flags[story].is_tagged /\ flags[story].is_summarized

\* StoryModel.tags as selectinload reads it
story_tag_ids(j, story) ==
    {t \in TagIds : story_tags[<<story, t>>] > 0
                    \/ <<story, t>> \in etx[j].story_tags}

\* ORDER BY score DESC
RECURSIVE order_by_score_desc(_)
order_by_score_desc(S) ==
    IF S = {} THEN << >>
    ELSE LET top == CHOOSE x \in S : \A y \in S : score(y) <= score(x)
         IN  <<top>> \o order_by_score_desc(S \ {top})

\* LIMIT n
limit_rows(rows, n) == SubSeq(rows, 1, Min(n, Len(rows)))

\* a selection that leaves the outer join out
get_stories(j, limit) ==
    limit_rows(order_by_score_desc(StoredStories), limit)

get_stories_without_summary(j, limit) ==
    limit_rows(order_by_score_desc({x \in StoredStories : ~ has_summary(j, x)}),
               limit)

get_unprocessed_stories(j, limit) ==
    limit_rows(order_by_score_desc({x \in StoredStories : ~ is_processed(j, x)}),
               limit)

\* TaxonomyService._tag_cache of the running tick: the tags it resolved, all
\* of which it created or attached in this transaction
tag_cache(j) ==
    {t \in VisibleTags(j) :
        t \in etx[j].tags \/ \E x \in StoryIds : <<x, t.id>> \in etx[j].story_tags}

\* resolve_tags over get_or_create_tag: a name whose slug is cached resolves
\* to the cached row; otherwise select by slug, scalar_one_or_none() raising
\* on two rows; otherwise add + flush a new row.  cache and visible grow as
\* the loop goes on
\* ids a new tags row cannot take: those of committed and of flushed rows.
\* The id sequence never hands a value out twice; the smallest free value
\* stands for the next one, ids of deleted rows being referenced nowhere
UsedTagIds == {t.id : t \in tags \cup UNION {etx[j].tags : j \in EnrichJobs}}
next_tag_id(used) ==
    CHOOSE x \in TagIds \ used : \A y \in TagIds \ used : x <= y

RECURSIVE resolve_tags(_, _, _, _)
resolve_tags(names, cache, visible, used) ==
    IF names = << >>
    THEN [tag_ids |-> {}, created |-> {}, error |-> "none"]
    ELSE LET slug == normalize_slug(Head(names))
             cached == {t \in cache : t.slug = slug}
             found == {t \in visible : t.slug = slug}
         IN  IF cached /= {}
             THEN LET rest == resolve_tags(Tail(names), cache, visible, used)
                  IN  [rest EXCEPT !.tag_ids =
                                      @ \cup {(CHOOSE t \in cached : TRUE).id}]
             ELSE IF Cardinality(found) > 1
             THEN [tag_ids |-> {}, created |-> {},
                   error |-> "MultipleResultsFound"]
             ELSE IF found /= {}
             THEN LET rest == resolve_tags(Tail(names), cache \cup found,
                                           visible, used)
                  IN  [rest EXCEPT !.tag_ids =
                                      @ \cup {(CHOOSE t \in found : TRUE).id}]
             ELSE IF TagIds \subseteq used
             THEN [tag_ids |-> {}, created |-> {}, error |-> "ids_exhausted"]
             ELSE LET row == [id |-> next_tag_id(used), slug |-> slug,
                             usage_count |-> 1]
                      rest == resolve_tags(Tail(names), cache \cup {row},
                                           visible \cup {row},
                                           used \cup {row.id})
                  IN  [rest EXCEPT !.tag_ids = @ \cup {row.id},
                                   !.created = @ \cup {row}]

\* `if tag not in story_model.tags: story_model.tags.append(tag)`
attach_tags(j, story, tag_ids) ==
    {<<story, t>> : t \in tag_ids \ story_tag_ids(j, story)}

\* the flush of a story_tags row whose key is already committed
PrimaryKeyViolation(rows) == \E r \in rows : story_tags[r] > 0

\* SummaryRepository.create flushes into the unique index on story_id: it
\* waits while another transaction holds an uncommitted row for the story
SummaryInsertWaits(j, story) ==
    \E t \in EnrichJobs \ {j} : story \in etx[t].summaries

\* a commit that loses the flushed summaries rows
CommitWithoutSummaries(j) == summaries

\* session.commit()
CommitSummaries(j) ==
    [x \in StoryIds |-> IF x \in etx[j].summaries THEN summaries[x] + 1
                        ELSE summaries[x]]
CommitStoryTags(j) ==
    [r \in StoryIds \X TagIds |-> IF r \in etx[j].story_tags
                                  THEN story_tags[r] + 1 ELSE story_tags[r]]
CommitFlags(j) ==
    [x \in StoryIds |-> IF x \in etx[j].flagged
                        THEN [is_summarized |-> TRUE, is_tagged |-> TRUE]
                        ELSE flags[x]]

(***************************************************************************)
(* The scraper commits a new story: flags false, no summary, no tags.      *)
(***************************************************************************)
StoryStored(story) ==
    /\ stories[story] = 0
    /\ stories' = [stories EXCEPT ![story] = 1]
    /\ UNCHANGED <<hn, scraper_state, tx, bf, ct, sched, lk, advisory_locks>>
    /\ UNCHANGED <<wvars, qvars, avars, evars>>

(***************************************************************************)
(* The oracle: an outage makes every call fail; a broken story fails       *)
(* whenever it is asked.                                                   *)
(***************************************************************************)
OutageBegins ==
    /\ ~ oracle.outage
    /\ oracle.outages < MaxOutages
    /\ oracle' = [oracle EXCEPT !.outage = TRUE, !.outages = @ + 1]
    /\ UNCHANGED <<wvars, qvars, avars, svars, summaries, flags, tags, story_tags, proposals,
                   etx, ej>>

OutageEnds ==
    /\ oracle.outage
    /\ oracle' = [oracle EXCEPT !.outage = FALSE]
    /\ UNCHANGED <<wvars, qvars, avars, svars, summaries, flags, tags, story_tags, proposals,
                   etx, ej>>

\* summarize_story: None on a missing key, an exception or a timeout
summarize_story(story, tag_names) ==
    IF oracle.outage \/ story \in oracle.broken THEN NoResult
    ELSE [ok |-> TRUE, tag_names |-> tag_names]

(***************************************************************************)
(* One tick of a job that runs generate_missing_summaries on its session.  *)
(***************************************************************************)
\* the limit the job passes
enrich_limit(j) ==
    IF j = "recovery"
    THEN Len(get_unprocessed_stories(j, summarization_batch_size))
    ELSE summarization_batch_size

after_story(rest) == IF rest = << >> THEN "commit" ELSE "oracle"

EnrichStart(j) ==
    /\ ej[j].pc = "idle"
    /\ \/ j /= "recovery"
       \/ get_unprocessed_stories(j, summarization_batch_size) /= << >>
    /\ LET stories_without == get_stories_without_summary(j, enrich_limit(j))
       IN  ej' = [ej EXCEPT ![j] =
                    [pc |-> after_story(stories_without),
                     selected |-> stories_without, result |-> NoResult,
                     count |-> 0, status |-> "none"]]
    /\ UNCHANGED <<wvars, qvars, avars, svars, summaries, flags, tags, story_tags, proposals,
                   etx, oracle>>

\* a null result that is counted as a generated summary
count_story(locals) ==
    [locals EXCEPT !.pc = after_story(Tail(locals.selected)),
                   !.selected = Tail(locals.selected),
                   !.count = @ + 1]

\* `if not result: continue`
skip_story(locals) ==
    [locals EXCEPT !.pc = after_story(Tail(locals.selected)),
                   !.selected = Tail(locals.selected)]

\* result = await self.summarizer.summarize_story(story); a null result
\* goes on to the next story
EnrichSummarize(j) ==
    /\ ej[j].pc = "oracle"
    /\ \E tag_names \in OracleTagLists :
         LET result == summarize_story(Head(ej[j].selected), tag_names)
         IN  ej' = [ej EXCEPT ![j] =
                      IF result.ok
                      THEN [@ EXCEPT !.pc = "write", !.result = result]
                      ELSE skip_story(@)]
    /\ UNCHANGED <<wvars, qvars, avars, svars, summaries, flags, tags, story_tags, proposals,
                   etx, oracle>>

\* summarize_story catches an exception or a timeout of the call and
\* returns None: the loop goes on to the next story
EnrichSummarizeFails(j) ==
    /\ ej[j].pc = "oracle"
    /\ ej' = [ej EXCEPT ![j] = skip_story(@)]
    /\ UNCHANGED <<wvars, qvars, avars, svars, summaries, flags, tags, story_tags, proposals,
                   etx, oracle>>

\* the exception leaves generate_missing_summaries and the session block:
\* the transaction is rolled back, the job logs the error
EnrichRaise(j, error) ==
    /\ etx' = [etx EXCEPT ![j] = EmptyEtx]
    /\ ej' = [ej EXCEPT ![j] = [EnrichIdle EXCEPT !.status = error]]

\* summary_repo.create, resolve_tags, the appends, the two flags
EnrichWrite(j) ==
    /\ ej[j].pc = "write"
    /\ LET story == Head(ej[j].selected)
           rest == Tail(ej[j].selected)
           resolved == resolve_tags(ej[j].result.tag_names, tag_cache(j),
                                    VisibleTags(j), UsedTagIds)
           rows == attach_tags(j, story, resolved.tag_ids)
       IN  /\ ~ SummaryInsertWaits(j, story)
           /\ resolved.error /= "ids_exhausted"
           /\ IF summaries[story] > 0
              THEN EnrichRaise(j, "IntegrityError summaries_story_id_key")
              ELSE IF resolved.error /= "none"
              THEN EnrichRaise(j, resolved.error)
              ELSE IF PrimaryKeyViolation(rows)
              THEN EnrichRaise(j, "IntegrityError story_tags_pkey")
              ELSE /\ etx' = [etx EXCEPT ![j] =
                                [summaries |-> @.summaries \cup {story},
                                 tags |-> @.tags \cup resolved.created,
                                 story_tags |-> @.story_tags \cup rows,
                                 flagged |-> @.flagged \cup {story}]]
                   /\ ej' = [ej EXCEPT ![j] =
                               [@ EXCEPT !.pc = after_story(rest),
                                         !.selected = rest,
                                         !.result = NoResult,
                                         !.count = @ + 1]]
    /\ UNCHANGED <<wvars, qvars, avars, svars, summaries, flags, tags, story_tags, proposals,
                   oracle>>

\* await session.commit() of the job
EnrichCommit(j) ==
    /\ ej[j].pc = "commit"
    /\ summaries' = CommitSummaries(j)
    /\ tags' = tags \cup etx[j].tags
    /\ story_tags' = CommitStoryTags(j)
    /\ flags' = CommitFlags(j)
    /\ etx' = [etx EXCEPT ![j] = EmptyEtx]
    /\ ej' = [ej EXCEPT ![j] = EnrichIdle]
    /\ UNCHANGED <<wvars, qvars, avars, svars, proposals, oracle>>

(***************************************************************************)
(* Proposals: created pending, reviewed, executed by the reorganizer.      *)
(***************************************************************************)
\* AgentRepository.create_proposal; the table holds one proposal at a time,
\* a new one takes the place of a closed one that no request is working on
ProposalCreated(data) ==
    /\ proposals.status \in {"none", "rejected", "executed"}
    /\ \A r \in Requests : rq[r].pc = "idle"
    /\ proposals' = [status |-> "pending", data |-> data, result |-> "none",
                     executed_at |-> FALSE]
    /\ UNCHANGED <<wvars, qvars, avars, svars, summaries, flags, tags, story_tags, etx, ej,
                   oracle>>

\* POST /proposals/{id}/approve, and the auto-approver
ApproveProposal ==
    /\ proposals.status = "pending"
    /\ proposals' = [proposals EXCEPT !.status = "approved"]
    /\ UNCHANGED <<wvars, qvars, avars, svars, summaries, flags, tags, story_tags, etx, ej,
                   oracle>>

\* POST /proposals/{id}/reject
RejectProposal ==
    /\ proposals.status = "pending"
    /\ proposals' = [proposals EXCEPT !.status = "rejected"]
    /\ UNCHANGED <<wvars, qvars, avars, svars, summaries, flags, tags, story_tags, etx, ej,
                   oracle>>

(***************************************************************************)
(* The reorganizer.  It runs on a session of its own and sees committed    *)
(* rows; one execution is one transaction.                                 *)
(***************************************************************************)
\* select(TagModel).where(TagModel.slug == slug)
tags_by_slug(rows, slug) == {t \in rows : t.slug = slug}

\* the merge without its first statement
keep_duplicates(st, source_id, target_id) == st

\* delete(story_tags).where(tag_id == source_id, story_id.in_(select
\* story_id where tag_id == target_id))
delete_duplicates(st, source_id, target_id) ==
    [r \in StoryIds \X TagIds |->
        IF r[2] = source_id /\ st[<<r[1], target_id>>] > 0 THEN 0 ELSE st[r]]

\* update(story_tags).where(tag_id == source_id).values(tag_id=target_id)
repoint(st, source_id, target_id) ==
    [r \in StoryIds \X TagIds |->
        (IF r[2] = target_id THEN st[<<r[1], source_id>>] ELSE 0)
        + (IF r[2] /= source_id THEN st[r] ELSE 0)]

\* for source_id in source_ids: delete duplicates, then update
RECURSIVE merge_sources(_, _, _)
merge_sources(st, source_ids, target_id) ==
    IF source_ids = {} THEN st
    ELSE LET source_id == CHOOSE x \in source_ids : \A y \in source_ids : x <= y
         IN  merge_sources(
                 repoint(delete_duplicates(st, source_id, target_id),
                         source_id, target_id),
                 source_ids \ {source_id}, target_id)

\* ON DELETE CASCADE of story_tags.tag_id
cascade(st, deleted_ids) ==
    [r \in StoryIds \X TagIds |-> IF r[2] \in deleted_ids THEN 0 ELSE st[r]]

\* the story_tags primary key refuses a second row with one key
ReorganizerKeyViolation(st) == \E r \in StoryIds \X TagIds : st[r] > 1

\* select(func.count(story_tags.c.story_id)).where(tag_id == tag_id)
_count_tag_usage(st, tag_id) ==
    Cardinality({x \in StoryIds : st[<<x, tag_id>>] > 0})

\* `tag.usage_count = count`, written with the commit; a row the bulk DELETE
\* has removed is no longer in the session and nothing is written for it
set_usage_count(rows, tag_id, count) ==
    {IF t.id = tag_id THEN [t EXCEPT !.usage_count = count] ELSE t : t \in rows}

\* every type is dispatched
any_type(data) == TRUE

\* the if / elif chain of run() has a branch for the type
known_type(data) ==
    data.proposal_type \in {"merge_tags", "create_tag", "retire_tag"}

Unchanged(result) ==
    [tags |-> tags, story_tags |-> story_tags, deleted |-> {},
     result |-> result]

\* _get_or_create_tag(name): the row, and whether it was created
get_or_create(name, rows) ==
    LET found == tags_by_slug(rows, normalize_slug(name))
    IN  IF Cardinality(found) > 1
        THEN [error |-> "MultipleResultsFound"]
        ELSE IF found /= {}
        THEN [error |-> "none", tag |-> CHOOSE t \in found : TRUE]
        ELSE IF TagIds \subseteq UsedTagIds
        THEN [error |-> "ids_exhausted"]
        ELSE [error |-> "none",
              tag |-> [id |-> next_tag_id(UsedTagIds),
                       slug |-> normalize_slug(name), usage_count |-> 0]]

_execute_merge(data, dry_run) ==
    LET target == get_or_create(data.target_tag, tags)
    IN  IF data.source_tags = {} \/ data.target_tag = NoName
        THEN Unchanged("ValueError")
        ELSE IF target.error /= "none" THEN Unchanged(target.error)
        ELSE
        LET rows == tags \cup {target.tag}
            source_slugs == {normalize_slug(n) : n \in data.source_tags}
            source_tags == {t \in rows : t.slug \in source_slugs}
            source_ids == {t.id : t \in source_tags}
            merged == merge_sources(story_tags, source_ids, target.tag.id)
        IN  IF source_ids = {}
            THEN [tags |-> rows, story_tags |-> story_tags, deleted |-> {},
                  result |-> "no_sources"]
            ELSE IF dry_run
            THEN [tags |-> rows, story_tags |-> story_tags, deleted |-> {},
                  result |-> "dry_run"]
            ELSE IF ReorganizerKeyViolation(merged)
            THEN Unchanged("IntegrityError story_tags_pkey")
            ELSE [tags |-> set_usage_count(
                               rows \ source_tags, target.tag.id,
                               _count_tag_usage(cascade(merged, source_ids),
                                                target.tag.id)),
                  story_tags |-> cascade(merged, source_ids),
                  deleted |-> source_ids,
                  result |-> "success"]

_execute_create(data, dry_run) ==
    LET existing == tags_by_slug(tags, normalize_slug(data.tag_name))
    IN  IF data.tag_name = NoName THEN Unchanged("ValueError")
        ELSE IF Cardinality(existing) > 1
        THEN Unchanged("MultipleResultsFound")
        ELSE IF existing /= {} THEN Unchanged("already_exists")
        ELSE IF dry_run THEN Unchanged("dry_run")
        ELSE IF TagIds \subseteq UsedTagIds THEN Unchanged("ids_exhausted")
        ELSE [tags |-> tags \cup {[id |-> next_tag_id(UsedTagIds),
                                   slug |-> normalize_slug(data.tag_name),
                                   usage_count |-> 0]},
              story_tags |-> story_tags, deleted |-> {},
              result |-> "success"]

_execute_retire(data, dry_run) ==
    LET found == tags_by_slug(tags, normalize_slug(data.tag_name))
    IN  IF data.tag_name = NoName THEN Unchanged("ValueError")
        ELSE IF Cardinality(found) > 1
        THEN Unchanged("MultipleResultsFound")
        ELSE IF found = {} THEN Unchanged("not_found")
        ELSE IF dry_run THEN Unchanged("dry_run")
        ELSE
        LET tag == CHOOSE t \in found : TRUE
        IN  IF data.replacement_tag = NoName
            THEN [tags |-> tags \ {tag},
                  story_tags |-> cascade(story_tags, {tag.id}),
                  deleted |-> {tag.id},
                  result |-> "success"]
            ELSE
            LET replacement == get_or_create(data.replacement_tag, tags)
            IN  IF replacement.error /= "none"
                THEN Unchanged(replacement.error)
                ELSE
                LET moved == repoint(delete_duplicates(story_tags, tag.id,
                                                       replacement.tag.id),
                                     tag.id, replacement.tag.id)
                IN  IF ReorganizerKeyViolation(moved)
                    THEN Unchanged("IntegrityError story_tags_pkey")
                    ELSE [tags |-> set_usage_count(
                                       (tags \cup {replacement.tag}) \ {tag},
                                       replacement.tag.id,
                                       _count_tag_usage(moved,
                                                        replacement.tag.id)),
                          story_tags |-> cascade(moved, {tag.id}),
                          deleted |-> {tag.id}, result |-> "success"]

\* the dispatch of TagReorganizerAgent.run
reorganize(data, dry_run) ==
    IF ~ known_type(data) THEN Unchanged("ValueError")
    ELSE IF data.proposal_type = "merge_tags"
    THEN _execute_merge(data, dry_run)
    ELSE IF data.proposal_type = "create_tag"
    THEN _execute_create(data, dry_run)
    ELSE _execute_retire(data, dry_run)

\* run() goes past its status check whatever the status
is_reviewed(proposal) == TRUE

\* `if proposal.status != "approved": raise ValueError`
is_approved(proposal) == proposal.status = "approved"

ReorganizerErrors ==
    {"MultipleResultsFound", "IntegrityError story_tags_pkey"}

\* DELETE of a tags row waits for the transactions that hold an uncommitted
\* story_tags row referencing it
ForeignKeyWaits(deleted_ids) ==
    \E j \in EnrichJobs : \E r \in etx[j].story_tags : r[2] \in deleted_ids

\* TagReorganizerAgent.run: the status check, then the dispatch
run(proposal, dry_run) ==
    IF ~ is_approved(proposal) THEN Unchanged("ValueError")
    ELSE reorganize(proposal.data, dry_run)

\* mark_proposal_executed unless dry_run; an exception leaves run() before it
mark_proposal_executed(proposal, result, dry_run) ==
    IF dry_run \/ result = "ValueError" THEN proposal
    ELSE IF result \in ReorganizerErrors
    THEN [proposal EXCEPT !.result = result]
    ELSE [proposal EXCEPT !.status = "executed", !.result = result,
                          !.executed_at = TRUE]

\* a commit whatever dry_run says
commit_always(done, dry_run) == done

\* `if not dry_run: await session.commit()`; without it the session is
\* closed and what it flushed is rolled back
commit_unless_dry_run(done, dry_run) ==
    IF dry_run THEN [done EXCEPT !.tags = tags, !.story_tags = story_tags]
    ELSE done

\* orchestrator.execute_proposal: reorganizer.run on a session of its own,
\* session.commit() unless dry_run
execute_proposal(dry_run) ==
    /\ proposals.status /= "none"
    /\ LET done == run(proposals, dry_run)
           committed == commit_unless_dry_run(done, dry_run)
       IN  /\ done.result /= "ids_exhausted"
           /\ ~ ForeignKeyWaits(done.deleted)
           /\ tags' = committed.tags
           /\ story_tags' = committed.story_tags
           /\ proposals' = mark_proposal_executed(proposals, done.result,
                                                  dry_run)

\* an execution whose answer nobody looks at
ExecuteProposal(dry_run) ==
    /\ execute_proposal(dry_run)
    /\ UNCHANGED <<wvars, qvars, avars, svars, summaries, flags, etx, ej, oracle>>

(***************************************************************************)
(* The enrichment system: stories arrive, the continuous job and the       *)
(* recovery job enrich them on separate sessions, proposals are reviewed   *)
(* and executed, the oracle has outages.                                   *)
(***************************************************************************)
InitEnrich ==
    /\ hn = [items |-> [i \in Ids |-> RecentStory],
             maxitem |-> InitialMaxItem, curated |-> CuratedIds]
    /\ stories = [i \in Ids |-> 0]
    /\ scraper_state = {}
    /\ tx = [s \in Sessions |-> EmptyTx]
    /\ bf = BackfillIdle
    /\ ct = ContinuousIdle
    /\ sched = [backfill_complete |-> FALSE, hash_seed |-> 1]
    /\ lk = [p \in Callers |-> CallerInit(1, 1)]
    /\ advisory_locks = {}
    /\ EnrichEmpty
    /\ AgentsIdle
    /\ ServiceIdle
    /\ oracle = [outage |-> FALSE, outages |-> 0, broken |-> {}]

NextEnrich ==
    \/ \E story \in 1..MaxArrivals : StoryStored(story)
    \/ \E j \in EnrichJobs : EnrichStart(j)
    \/ \E j \in EnrichJobs : EnrichSummarize(j)
    \/ \E j \in EnrichJobs : EnrichSummarizeFails(j)
    \/ \E j \in EnrichJobs : EnrichWrite(j)
    \/ \E j \in EnrichJobs : EnrichCommit(j)
    \/ \E data \in ProposalShapes : ProposalCreated(data)
    \/ ApproveProposal
    \/ RejectProposal
    \/ \E dry_run \in BOOLEAN : ExecuteProposal(dry_run)

SpecEnrich == InitEnrich /\ [][NextEnrich]_vars

(***************************************************************************)
(* The reconciliation loop: every story is stored, the oracle fails during *)
(* an outage and for the stories it cannot handle, and the interval        *)
(* trigger keeps firing the recovery job, whose ticks run to their end.    *)
(***************************************************************************)
InitRecovery ==
    /\ hn = [items |-> [i \in Ids |-> RecentStory],
             maxitem |-> InitialMaxItem, curated |-> CuratedIds]
    /\ stories = [i \in Ids |-> IF i \in StoryIds THEN 1 ELSE 0]
    /\ scraper_state = {}
    /\ tx = [s \in Sessions |-> EmptyTx]
    /\ bf = BackfillIdle
    /\ ct = ContinuousIdle
    /\ sched = [backfill_complete |-> FALSE, hash_seed |-> 1]
    /\ lk = [p \in Callers |-> CallerInit(1, 1)]
    /\ advisory_locks = {}
    /\ EnrichEmpty
    /\ AgentsIdle
    /\ ServiceIdle
    /\ oracle \in [outage : {FALSE}, outages : {0}, broken : SUBSET StoryIds]

NextRecovery ==
    \/ OutageBegins
    \/ OutageEnds
    \/ EnrichStart("recovery")
    \/ EnrichSummarize("recovery")
    \/ EnrichWrite("recovery")
    \/ EnrichCommit("recovery")

SpecRecovery ==
    /\ InitRecovery
    /\ [][NextRecovery]_vars
    /\ WF_vars(OutageEnds)
    /\ WF_vars(EnrichStart("recovery"))
    /\ WF_vars(EnrichSummarize("recovery"))
    /\ WF_vars(EnrichWrite("recovery"))
    /\ WF_vars(EnrichCommit("recovery"))

(***************************************************************************)
(* HNClient._fetch_with_retry: one call, step by step.  fetch.waited is    *)
(* the time slept since the last request, fetch.slept the time slept in    *)
(* the whole call.                                                         *)
(***************************************************************************)
RECURSIVE pow2(_)
pow2(n) == IF n = 0 THEN 1 ELSE 2 * pow2(n - 1)

\* delay = base_delay * (2**attempt)
backoff_delay(base_delay, attempt) == base_delay * pow2(attempt)

\* delay = base_delay * (2**attempt) * 2
rate_limit_delay(base_delay, attempt) == base_delay * pow2(attempt) * 2

\* a loop that runs one iteration more
in_range_inclusive(attempt, max_retries) == attempt <= max_retries

\* for attempt in range(max_retries)
in_range(attempt, max_retries) == attempt < max_retries

\* a client that takes every failure status but 429 for a transient one
after_response_retrying(response) ==
    IF response = "200" THEN "return"
    ELSE IF response = "429" THEN "rate_limited"
    ELSE IF response = "404" THEN "return_none"
    ELSE "backoff"

\* where the body of the try block goes after session.get(url)
after_response(response) ==
    IF response = "200" THEN "return"
    ELSE IF response = "429" THEN "rate_limited"
    ELSE IF response \in FetchErrors THEN "backoff"
    ELSE "return_none"

FetchCall(max_retries, base_delay) ==
    [FetchIdle EXCEPT !.pc = IF in_range(0, max_retries) THEN "get"
                             ELSE "done",
                      !.max_retries = max_retries,
                      !.base_delay = base_delay,
                      !.result = IF in_range(0, max_retries) THEN "none"
                                 ELSE "None"]

\* async with session.get(url) as response
FetchGet(response) ==
    /\ fetch.pc = "get"
    /\ LET next == after_response(response)
       IN  fetch' = [fetch EXCEPT
                       !.requests = @ + 1,
                       !.response = response,
                       !.waited = 0,
                       !.pc = IF next \in {"return", "return_none"}
                              THEN "done" ELSE next,
                       !.result = IF next = "return" THEN "payload"
                                  ELSE IF next = "return_none" THEN "None"
                                  ELSE "none"]
    /\ UNCHANGED <<wvars, qvars, svars, evars, rq, pipeline>>

\* the 429 branch: await asyncio.sleep(delay)
FetchRateLimited ==
    /\ fetch.pc = "rate_limited"
    /\ LET delay == rate_limit_delay(fetch.base_delay, fetch.attempt)
       IN  fetch' = [fetch EXCEPT !.waited = @ + delay, !.slept = @ + delay,
                                  !.pc = "backoff"]
    /\ UNCHANGED <<wvars, qvars, svars, evars, rq, pipeline>>

\* `if attempt < max_retries - 1: sleep(delay)`, then the next iteration or
\* the `return None` after the loop
FetchBackoff ==
    /\ fetch.pc = "backoff"
    /\ LET delay == IF fetch.attempt < fetch.max_retries - 1
                    THEN backoff_delay(fetch.base_delay, fetch.attempt)
                    ELSE 0
           again == in_range(fetch.attempt + 1, fetch.max_retries)
       IN  fetch' = [fetch EXCEPT !.waited = @ + delay, !.slept = @ + delay,
                                  !.attempt = @ + 1,
                                  !.pc = IF again THEN "get" ELSE "done",
                                  !.result = IF again THEN "none" ELSE "None"]
    /\ UNCHANGED <<wvars, qvars, svars, evars, rq, pipeline>>

InitFetch ==
    /\ hn = [items |-> [i \in Ids |-> RecentStory],
             maxitem |-> InitialMaxItem, curated |-> CuratedIds]
    /\ stories = [i \in Ids |-> 0]
    /\ scraper_state = {}
    /\ tx = [s \in Sessions |-> EmptyTx]
    /\ bf = BackfillIdle
    /\ ct = ContinuousIdle
    /\ sched = [backfill_complete |-> FALSE, hash_seed |-> 1]
    /\ lk = [p \in Callers |-> CallerInit(1, 1)]
    /\ advisory_locks = {}
    /\ EnrichEmpty
    /\ oracle = [outage |-> FALSE, outages |-> 0, broken |-> {}]
    /\ rq = [r \in Requests |-> RequestIdle]
    /\ pipeline = NoRun
    /\ fetch \in {FetchCall(max_retries, base_delay) :
                    max_retries \in 1..MaxRetries,
                    base_delay \in 0..MaxBaseDelay}
    /\ ServiceIdle

NextFetch ==
    \/ \E response \in HTTPStatuses \cup FetchErrors : FetchGet(response)
    \/ FetchRateLimited
    \/ FetchBackoff

SpecFetch == InitFetch /\ [][NextFetch]_vars

(***************************************************************************)
(* AgentOrchestrator.run_analysis_pipeline: the proposer's proposals are   *)
(* stored, and in auto-apply mode the low-risk ones are approved, all in   *)
(* one transaction.                                                        *)
(***************************************************************************)
\* what the proposer can return for one proposal
Candidates ==
    [proposal_type : ProposalTypes, affected_stories_count : AffectedCounts,
     priority : Priorities]

\* the proposer's result: up to MaxProposals proposals
ProposerResults ==
    UNION {[1..n -> Candidates] : n \in 0..MaxProposals}

\* AgentRepository.create_proposal: the row, status by its column default
create_proposal(p) ==
    [proposal_type |-> p.proposal_type,
     affected_stories_count |-> p.affected_stories_count,
     priority |-> p.priority, status |-> "pending"]

\* a policy without the limit on affected stories
is_low_risk_unbounded(proposal) ==
    /\ proposal.proposal_type \in {"merge_tags", "retire_tag"}
    /\ proposal.priority \in {"low", "medium"}

\* AgentOrchestrator._is_low_risk
is_low_risk(proposal) ==
    IF proposal.proposal_type \notin {"merge_tags", "retire_tag"} THEN FALSE
    ELSE IF proposal.affected_stories_count > agent_auto_approve_max_affected
    THEN FALSE
    ELSE IF proposal.priority \notin {"low", "medium"} THEN FALSE
    ELSE TRUE

\* the mode alone decides
auto_apply_requested(mode, enabled) == mode = "auto-apply"

\* `if mode == "auto-apply" and settings.agent_enable_auto_approve`
auto_approve_enabled(mode, enabled) == mode = "auto-apply" /\ enabled

\* Step 4 for one stored proposal
auto_approve(mode, enabled, proposal) ==
    IF auto_approve_enabled(mode, enabled) /\ is_low_risk(proposal)
    THEN [proposal EXCEPT !.status = "approved"]
    ELSE proposal

RunAnalysisPipeline(mode) ==
    /\ pipeline.status = "none"
    /\ LET data == pipeline.proposals_data
           stored == IF mode = "analysis" THEN << >>
                     ELSE [i \in 1..Len(data) |->
                             auto_approve(mode,
                                          pipeline.agent_enable_auto_approve,
                                          create_proposal(data[i]))]
       IN  pipeline' = [pipeline EXCEPT !.mode = mode, !.stored = stored,
                                        !.status = "completed"]
    /\ UNCHANGED <<wvars, qvars, svars, evars, rq, fetch>>

InitPipeline ==
    /\ hn = [items |-> [i \in Ids |-> RecentStory],
             maxitem |-> InitialMaxItem, curated |-> CuratedIds]
    /\ stories = [i \in Ids |-> 0]
    /\ scraper_state = {}
    /\ tx = [s \in Sessions |-> EmptyTx]
    /\ bf = BackfillIdle
    /\ ct = ContinuousIdle
    /\ sched = [backfill_complete |-> FALSE, hash_seed |-> 1]
    /\ lk = [p \in Callers |-> CallerInit(1, 1)]
    /\ advisory_locks = {}
    /\ EnrichEmpty
    /\ oracle = [outage |-> FALSE, outages |-> 0, broken |-> {}]
    /\ rq = [r \in Requests |-> RequestIdle]
    /\ fetch = FetchIdle
    /\ pipeline \in {[NoRun EXCEPT !.agent_enable_auto_approve = enabled,
                                   !.proposals_data = data] :
                        enabled \in BOOLEAN, data \in ProposerResults}
    /\ ServiceIdle

NextPipeline == \E mode \in RunModes : RunAnalysisPipeline(mode)

SpecPipeline == InitPipeline /\ [][NextPipeline]_vars

(***************************************************************************)
(* The review API.  Each request has a session of its own: the handler     *)
(* reads the proposal, tests its status, and its write is committed when   *)
(* the handler has returned.                                               *)
(***************************************************************************)
\* proposal.data as it can reach the reorganizer: the proposer's shapes, a
\* merge whose target has the slug of its source, and data with a missing
\* field or a type run() has no branch for
AgentShapes ==
    ProposalShapes \cup
    {[proposal_type |-> "merge_tags", source_tags |-> {NameGoBang},
      target_tag |-> NameGo],
     [proposal_type |-> "merge_tags", source_tags |-> {},
      target_tag |-> NameWeb],
     [proposal_type |-> "retire_tag", tag_name |-> NoName,
      replacement_tag |-> NoName],
     [proposal_type |-> "create_tag", tag_name |-> NoName],
     [proposal_type |-> "split_tag", tag_name |-> NameGo,
      replacement_tag |-> NoName]}

\* get_proposal, then `if proposal.status != "pending": raise HTTPException`
ReviewRead(r, kind) ==
    /\ rq[r].pc = "idle"
    /\ proposals.status /= "none"
    /\ rq' = [rq EXCEPT ![r] =
                IF proposals.status /= "pending"
                THEN [pc |-> "idle", response |-> "400 not pending"]
                ELSE [pc |-> kind, response |-> "none"]]
    /\ UNCHANGED <<wvars, qvars, svars, evars, pipeline, fetch>>

\* AgentRepository.approve_proposal / reject_proposal on the row the session
\* has loaded, and the commit of get_session
ReviewWrite(r) ==
    /\ rq[r].pc \in {"approve", "reject"}
    /\ proposals' = [proposals EXCEPT !.status = IF rq[r].pc = "approve"
                                                 THEN "approved"
                                                 ELSE "rejected"]
    /\ rq' = [rq EXCEPT ![r] = [pc |-> "idle", response |-> "200"]]
    /\ UNCHANGED <<wvars, qvars, svars, summaries, flags, tags, story_tags, etx, ej, oracle,
                   pipeline, fetch>>

\* the handler's answer: ValueError is translated to 400, any other
\* exception is a 500
execute_response(result, dry_run) ==
    IF result = "ValueError" THEN "400 ValueError"
    ELSE IF result \in ReorganizerErrors THEN "500"
    ELSE IF dry_run THEN "200 dry_run"
    ELSE "200 executed"

\* POST /proposals/{id}/execute
ExecuteRequest(r, dry_run) ==
    /\ rq[r].pc = "idle"
    /\ execute_proposal(dry_run)
    /\ rq' = [rq EXCEPT ![r] =
                [pc |-> "idle",
                 response |-> execute_response(run(proposals, dry_run).result,
                                               dry_run)]]
    /\ UNCHANGED <<wvars, qvars, svars, summaries, flags, etx, ej, oracle, pipeline, fetch>>

\* run_analysis_pipeline in auto-apply mode with auto-approval enabled:
\* create_proposal and approve_proposal of a low-risk proposal, one commit
ProposalAutoApproved(data) ==
    /\ proposals.status \in {"none", "rejected", "executed"}
    /\ \A r \in Requests : rq[r].pc = "idle"
    /\ \E p \in Candidates :
          /\ p.proposal_type = data.proposal_type
          /\ auto_approve("auto-apply", TRUE, create_proposal(p)).status
                = "approved"
    /\ proposals' = [status |-> "approved", data |-> data, result |-> "none",
                     executed_at |-> FALSE]
    /\ UNCHANGED <<wvars, qvars, svars, summaries, flags, tags, story_tags, etx, ej, oracle,
                   avars>>

\* every story is enriched; the tags Go and Web exist, on any of the stories
InitAgents ==
    /\ hn = [items |-> [i \in Ids |-> RecentStory],
             maxitem |-> InitialMaxItem, curated |-> CuratedIds]
    /\ stories = [i \in Ids |-> IF i \in StoryIds THEN 1 ELSE 0]
    /\ scraper_state = {}
    /\ tx = [s \in Sessions |-> EmptyTx]
    /\ bf = BackfillIdle
    /\ ct = ContinuousIdle
    /\ sched = [backfill_complete |-> FALSE, hash_seed |-> 1]
    /\ lk = [p \in Callers |-> CallerInit(1, 1)]
    /\ advisory_locks = {}
    /\ summaries = [x \in StoryIds |-> 1]
    /\ flags = [x \in StoryIds |-> [is_summarized |-> TRUE, is_tagged |-> TRUE]]
    /\ tags = {[id |-> 1, slug |-> normalize_slug(NameGo), usage_count |-> 1],
               [id |-> 2, slug |-> normalize_slug(NameWeb), usage_count |-> 1]}
    /\ story_tags \in {st \in [StoryIds \X TagIds -> {0, 1}] :
                          \A r \in StoryIds \X TagIds : r[2] > 2 => st[r] = 0}
    /\ proposals = NoProposal
    /\ etx = [j \in EnrichJobs |-> EmptyEtx]
    /\ ej = [j \in EnrichJobs |-> EnrichIdle]
    /\ oracle = [outage |-> FALSE, outages |-> 0, broken |-> {}]
    /\ AgentsIdle
    /\ ServiceIdle

NextAgents ==
    \/ \E data \in AgentShapes : ProposalCreated(data)
    \/ \E data \in AgentShapes : ProposalAutoApproved(data)
    \/ \E r \in Requests : \E kind \in {"approve", "reject"} :
          ReviewRead(r, kind)
    \/ \E r \in Requests : ReviewWrite(r)
    \/ \E r \in Requests : \E dry_run \in BOOLEAN : ExecuteRequest(r, dry_run)

SpecAgents == InitAgents /\ [][NextAgents]_vars

(***************************************************************************)
(* Committed checkpoints and stored stories, as any reader sees them.      *)
(***************************************************************************)
CommittedRow(state_type) ==
    LET m == {r \in scraper_state : r.state_type = state_type}
    IN  IF m = {} THEN NoRow ELSE CHOOSE r \in m : TRUE

BackfillRow == CommittedRow(STATE_BACKFILL)
ContinuousRow == CommittedRow(STATE_CONTINUOUS)
StoredIds == {i \in Ids : stories[i] > 0}

\* a live story the upstream always serves
Served(i) == i <= hn.maxitem /\ hn.items[i].type = "story"
             /\ ~ hn.items[i].dead /\ ~ hn.items[i].flaky

BackfillRaised == bf.pc \in {"fetch", "write", "commit", "finish"}
                  /\ bf'.pc = "done" /\ bf'.status = "raised"
ContinuousRaised ==
    ct.pc \in {"fetch", "write", "commit", "curated", "curated_write", "tail"}
    /\ ct'.pc = "done" /\ ct'.status = "raised"

(***************************************************************************)
(* C1.  Across the ticks of one scheduler (ticks that stop at max_batches  *)
(* and ticks aborted by a failure included) the persisted backfill         *)
(* current_item_id never increases and the persisted continuous            *)
(* current_item_id never decreases; a persisted row never disappears.      *)
(***************************************************************************)
C1_MonotonicState ==
    [][ /\ BackfillRow /= NoRow =>
             /\ BackfillRow' /= NoRow
             /\ BackfillRow'.current_item_id <= BackfillRow.current_item_id
        /\ ContinuousRow /= NoRow =>
             /\ ContinuousRow' /= NoRow
             /\ ContinuousRow'.current_item_id >= ContinuousRow.current_item_id
      ]_vars

\* a resumed backfill tick that committed a batch and then raised, while the
\* continuous checkpoint has advanced over more than one tick
C1_Witness ==
    /\ bf.pc = "done" /\ bf.status = "raised" /\ bf.resumed
    /\ bf.batches_done >= 1
    /\ BackfillRow /= NoRow
    /\ BackfillRow.current_item_id < hn.maxitem - scraper_backfill_batch_size
    /\ ContinuousRow /= NoRow
    /\ ContinuousRow.items_processed >= 2

(***************************************************************************)
(* C2.  Two concurrent get_or_create_state_with_lock("continuous", X) in   *)
(* separate transactions on a store without a continuous row: afterwards   *)
(* exactly one continuous row exists, exactly one caller was told          *)
(* created=true and the other received the existing row with               *)
(* created=false.                                                          *)
(***************************************************************************)
C2_ExactlyOneCreated ==
    (\A p \in Callers : lk[p].pc = "done") =>
        /\ Cardinality({r \in scraper_state :
                            r.state_type = STATE_CONTINUOUS}) = 1
        /\ \E p \in Callers :
             /\ lk[p].created = "true"
             /\ \A q \in Callers \ {p} : lk[q].created = "false"

(***************************************************************************)
(* C3.  The store never holds two Story rows with one upstream_id, and     *)
(* once a complete run has been committed (backfill completed, continuous  *)
(* checkpoint at maxitem, every live curated story stored), no further   *)
(* scraper step against the unchanged upstream changes the set of stored   *)
(* upstream_ids.                                                           *)
(***************************************************************************)
Settled ==
    /\ BackfillRow /= NoRow
    /\ BackfillRow.status = "completed"
    /\ ContinuousRow /= NoRow
    /\ ContinuousRow.current_item_id = hn.maxitem
    /\ get_items_batch(hn.curated, {}) \subseteq StoredIds

C3_IdempotentIngestion ==
    [][ /\ \A i \in Ids : stories'[i] <= 1
        /\ (Settled /\ hn' = hn) => StoredIds' = StoredIds
      ]_vars

\* a continuous tick re-run on a settled store (no gap) has swept the curated
\* lists again and is about to commit
C3_Witness ==
    /\ Settled
    /\ StoredIds /= {}
    /\ ct.pc = "tail" /\ ct.status = "running"
    /\ ~ ct.was_created
    /\ ct.last_processed = ct.max_item
    /\ ct.batch_ids /= {}

(***************************************************************************)
(* C4.  When a step of a backfill or continuous tick raises, the tick      *)
(* ends, nothing of the open transaction survives and the committed        *)
(* checkpoint and stories are those of the last committed batch; a tick    *)
(* resumes at the committed current_item_id and every batch starts right   *)
(* at the committed checkpoint, so no id is skipped.                       *)
(***************************************************************************)
C4_AbortKeepsCheckpoint ==
    [][ /\ BackfillRaised =>
             /\ stories' = stories
             /\ scraper_state' = scraper_state
             /\ tx'[STATE_BACKFILL] = EmptyTx
        /\ ContinuousRaised =>
             /\ stories' = stories
             /\ scraper_state' = scraper_state
             /\ tx'[STATE_CONTINUOUS] = EmptyTx
        /\ (bf.pc = "idle" /\ bf'.pc /= "idle" /\ bf'.resumed) =>
             bf'.current_id = BackfillRow.current_item_id
        /\ (bf.pc = "fetch" /\ bf'.pc = "write" /\ BackfillRow /= NoRow) =>
             /\ bf.current_id \in bf'.batch_ids
             /\ \A i \in bf'.batch_ids : i <= BackfillRow.current_item_id
             /\ BackfillRow.current_item_id = bf.current_id
        /\ (ct.pc = "idle" /\ ct'.pc \in {"fetch", "curated"}
            /\ ~ ct'.was_created) =>
             ct'.last_processed = ContinuousRow.current_item_id
        /\ (ct.pc = "fetch" /\ ct'.pc = "write" /\ ContinuousRow /= NoRow) =>
             /\ ContinuousRow.current_item_id + 1 \in ct'.batch_ids
             /\ \A i \in ct'.batch_ids : i > ContinuousRow.current_item_id
      ]_vars

\* a backfill tick raised in its second batch: only the first is committed
C4_Witness ==
    /\ bf.pc = "done" /\ bf.status = "raised"
    /\ bf.batches_processed = 2
    /\ ~ bf.resumed
    /\ BackfillRow /= NoRow
    /\ BackfillRow.items_processed = scraper_backfill_batch_size
    /\ BackfillRow.current_item_id > 0

(***************************************************************************)
(* C5.  At the end of a run_backfill tick the status is completed exactly  *)
(* when current_item_id <= 0 or the kernel reported reached_target_date    *)
(* for the last batch; otherwise the tick ended at max_batches, the status *)
(* stays active and the tick reports in_progress.                          *)
(***************************************************************************)
C5_CompletionRule ==
    (bf.pc = "done" /\ bf.status \in {"completed", "in_progress"}) =>
        /\ bf.status = "completed" <=>
              (bf.current_id <= 0 \/ bf.kernel.reached_target_date)
        /\ bf.status = "completed" =>
              /\ BackfillRow /= NoRow
              /\ BackfillRow.status = "completed"
              /\ BackfillRow.current_item_id = bf.current_id
        /\ bf.status = "in_progress" =>
              /\ BackfillRow /= NoRow
              /\ BackfillRow.status = "active"
              /\ bf.stop = "max_batches"
              /\ bf.batches_done = scraper_backfill_max_batches

\* completed through the target date while ids remain
C5_Witness ==
    /\ bf.pc = "done" /\ bf.status = "completed"
    /\ bf.kernel.reached_target_date
    /\ bf.current_id > 0

(***************************************************************************)
(* C6.  When the backfill reaches completed over the upstream   *)
(* ids 1..max it started from, every live story among them whose time is   *)
(* at or after the target timestamp is stored.                             *)
(***************************************************************************)
BackfillStartId == BackfillRow.current_item_id + BackfillRow.items_processed

RecentServed(i) == Served(i) /\ hn_created_at(i) >= backfill_target_timestamp

C6_EveryRecentStoryStored ==
    (BackfillRow /= NoRow /\ BackfillRow.status = "completed") =>
        \A i \in 1..BackfillStartId : RecentServed(i) => i \in StoredIds

(***************************************************************************)
(* C7.  In the kernel with a target timestamp: if a fetched story predates *)
(* the target, exactly the fetched stories at or after the target are      *)
(* upserted and reached_target_date is set; otherwise every fetched story  *)
(* is upserted and the flag is clear.  Without a target nothing is cut.    *)
(***************************************************************************)
C7_TargetFilter ==
    /\ bf.pc \in {"write", "commit"} =>
         LET k == bf.kernel
             kept == {x \in k.fetched :
                         hn_created_at(x) >= backfill_target_timestamp}
         IN  IF \E x \in k.fetched :
                   hn_created_at(x) < backfill_target_timestamp
             THEN k.stories = kept /\ k.reached_target_date
             ELSE k.stories = k.fetched /\ ~ k.reached_target_date
    /\ bf.pc = "commit" =>
         /\ tx[STATE_BACKFILL].stories \subseteq bf.kernel.stories
         /\ \A i \in bf.kernel.stories :
               i \in tx[STATE_BACKFILL].stories \/ stories[i] > 0
    /\ ct.pc \in {"write", "commit"} =>
         ct.kernel.stories = ct.kernel.fetched /\ ~ ct.kernel.reached_target_date

\* a mixed batch: one story kept and written, one cut
C7_Witness ==
    /\ bf.pc = "commit"
    /\ bf.kernel.reached_target_date
    /\ bf.kernel.stories /= {}
    /\ bf.kernel.stories /= bf.kernel.fetched
    /\ tx[STATE_BACKFILL].stories = bf.kernel.stories

(***************************************************************************)
(* C8.  A continuous tick with checkpoint c and upstream maxitem m > c     *)
(* visits c+1..m exactly once, in ascending batches of at most             *)
(* batch_size ids, commits the checkpoint after each batch and finishes    *)
(* the walk with the committed current_item_id = m and the live stories    *)
(* of the range stored.                                                    *)
(***************************************************************************)
C8_ContinuousWalk ==
    /\ ct.pc \in {"write", "commit"} =>
         Cardinality(ct.batch_ids) <= scraper_continuous_batch_size
    /\ (ct.pc = "fetch" /\ ct.scanned /= << >>) =>
         /\ ContinuousRow /= NoRow
         /\ ContinuousRow.current_item_id = ct.current_id - 1
         /\ ct.scanned = Ascending(ct.last_processed + 1, ct.current_id - 1)
    /\ (ct.pc \in {"curated", "curated_write", "tail"} /\ ct.status = "running"
        /\ ct.max_item > ct.last_processed) =>
         /\ ct.scanned = Ascending(ct.last_processed + 1, ct.max_item)
         /\ ContinuousRow /= NoRow
         /\ ContinuousRow.current_item_id = ct.max_item
         /\ \A i \in (ct.last_processed + 1)..ct.max_item :
               (Served(i) /\ i <= ct.max_item) => i \in StoredIds

\* a walk of three ids in two batches from an existing checkpoint
C8_Witness ==
    /\ ct.pc = "curated"
    /\ ~ ct.was_created
    /\ ct.max_item - ct.last_processed = scraper_continuous_batch_size + 1
    /\ Len(ct.scanned) = scraper_continuous_batch_size + 1
    /\ ContinuousRow.current_item_id = ct.max_item

(***************************************************************************)
(* C9.  As stated: one run_backfill call processes at most max_batches     *)
(* batches of at most batch_size ids, and when it stops because of the     *)
(* batch limit the state is active at the checkpoint of the last batch.    *)
(***************************************************************************)
BackfillStoppedAtLimit ==
    bf.pc = "done" /\ bf.stop = "max_batches"
    /\ bf.status \in {"completed", "in_progress"}

C9_LimitLeavesActive ==
    /\ bf.batches_processed <= scraper_backfill_max_batches
    /\ bf.pc \in {"write", "commit"} =>
         Cardinality(bf.batch_ids) <= scraper_backfill_batch_size
    /\ BackfillStoppedAtLimit =>
         /\ BackfillRow /= NoRow
         /\ BackfillRow.status = "active"
         /\ BackfillRow.current_item_id = bf.current_id

(***************************************************************************)
(* C9, amended.  One run_backfill call processes at most max_batches       *)
(* batches of at most batch_size ids; when it stops because of the batch   *)
(* limit with current_item_id > 0 the state is active at the checkpoint of *)
(* the last batch, and when that last batch brought current_item_id to 0   *)
(* the state is completed.                                                 *)
(***************************************************************************)
C9_LimitLeavesActiveWhileIdsRemain ==
    /\ bf.batches_processed <= scraper_backfill_max_batches
    /\ bf.pc \in {"write", "commit"} =>
         Cardinality(bf.batch_ids) <= scraper_backfill_batch_size
    /\ BackfillStoppedAtLimit =>
         /\ BackfillRow /= NoRow
         /\ BackfillRow.current_item_id = bf.current_id
         /\ BackfillRow.status =
               IF bf.current_id > 0 THEN "active" ELSE "completed"

\* stopped by the limit after max_batches full batches, ids remain
C9_Witness ==
    /\ BackfillStoppedAtLimit
    /\ bf.batches_processed = scraper_backfill_max_batches
    /\ bf.current_id > 0
    /\ BackfillRow.status = "active"
    /\ BackfillRow.items_processed >=
          scraper_backfill_max_batches * scraper_backfill_batch_size

(***************************************************************************)
(* C10.  Once the backfill state is completed it stays as it is, and a     *)
(* run_backfill call on it returns already_completed without a request to  *)
(* the upstream and without a change to the stored state or stories.       *)
(***************************************************************************)
C10_CompletedIsNoOp ==
    [][ (BackfillRow /= NoRow /\ BackfillRow.status = "completed") =>
          /\ BackfillRow' = BackfillRow
          /\ (bf.pc = "idle" /\ bf'.pc /= "idle"
              /\ ~ sched.backfill_complete) =>
                /\ bf'.pc = "done"
                /\ bf'.status = "already_completed"
                /\ ~ bf'.requested
                /\ scraper_state' = scraper_state
                /\ stories' = stories
                /\ tx' = tx
      ]_vars

\* a restarted scheduler has called run_backfill on the completed state
C10_Witness ==
    /\ bf.pc = "done"
    /\ bf.status = "already_completed"
    /\ BackfillRow.status = "completed"
    /\ sched.backfill_complete

(***************************************************************************)
(* C11.  The advisory-lock key is a stable function of state_type alone:   *)
(* any two callers (scheduler processes) that have computed the key for    *)
(* "continuous" hold the same key, so they contend on one lock.            *)
(***************************************************************************)
C11_StableLockKey ==
    \A p, q \in Callers :
        (lk[p].pc /= "start" /\ lk[q].pc /= "start") =>
            lk[p].lock_id = lk[q].lock_id

(***************************************************************************)
(* C15.  In every committed state each story with is_summarized = true     *)
(* has a Summary row.                                                      *)
(***************************************************************************)
C15_SummarizedHasSummary ==
    \A x \in StoryIds : flags[x].is_summarized => summaries[x] > 0

\* an enriched story committed, and a reorganizer execution after it
C15_Witness ==
    /\ \E x \in StoryIds : flags[x].is_summarized /\ summaries[x] = 1
    /\ proposals.status = "executed"
    /\ proposals.result = "success"

(***************************************************************************)
(* Enrichment as any reader sees it.                                       *)
(***************************************************************************)
\* story_tags rows of one story
TagsOf(x) == {t \in TagIds : story_tags[<<x, t>>] > 0}

\* a step of generate_missing_summaries or of the job around it
EnrichStep == ej' /= ej

(***************************************************************************)
(* C12.  A run of the enrichment that follows the run which enriched a     *)
(* story does not select the story again and leaves it as it was: exactly  *)
(* one Summary row, is_summarized = true, the same story_tags rows.        *)
(***************************************************************************)
C12_SecondRunChangesNothing ==
    [][ \A x \in StoryIds :
          (flags[x].is_summarized /\ EnrichStep) =>
            /\ summaries[x] = 1
            /\ summaries'[x] = 1
            /\ flags'[x].is_summarized
            /\ TagsOf(x)' = TagsOf(x)
            /\ \A j \in EnrichJobs :
                 (ej[j].pc = "idle" /\ ej'[j].pc /= "idle") =>
                   \A k \in 1..Len(ej'[j].selected) : ej'[j].selected[k] /= x
      ]_vars

\* the continuous job has started again after every stored story was
\* enriched, and found nothing to do
C12_Witness ==
    /\ StoredStories /= {}
    /\ \A x \in StoredStories : flags[x].is_summarized /\ TagsOf(x) /= {}
    /\ ej["continuous"].pc = "commit"
    /\ ej["continuous"].selected = << >>
    /\ ej["continuous"].count = 0
    /\ ej["recovery"].pc = "idle"

(***************************************************************************)
(* C13.  When the continuous job and the recovery job enrich at the same   *)
(* time and select the same unsummarized story, neither tick ends in an    *)
(* exception that discards its work, and the story has at most one         *)
(* Summary row.                                                            *)
(***************************************************************************)
C13_BothJobsFinish ==
    /\ \A j \in EnrichJobs :
         ej[j].status /= "IntegrityError summaries_story_id_key"
    /\ \A x \in StoryIds : summaries[x] <= 1

(***************************************************************************)
(* C14.  Eventual completeness: while recovery ticks keep firing, every    *)
(* stored story for which the oracle succeeds whenever it is asked, once   *)
(* the outage is over, eventually has a Summary and is_summarized =        *)
(* is_tagged = true, whatever its score and however many other stories     *)
(* keep failing.                                                           *)
(***************************************************************************)
Enriched(x) ==
    summaries[x] > 0 /\ flags[x].is_summarized /\ flags[x].is_tagged

C14_EventualCompleteness ==
    \A x \in StoryIds :
        (x \in StoredStories /\ x \notin oracle.broken) ~> Enriched(x)

(***************************************************************************)
(* C16.  Every story with is_tagged = true has at least one story_tags     *)
(* row, for every tag list the oracle may return and after any reorganizer *)
(* execution.                                                              *)
(***************************************************************************)
C16_TaggedHasTag ==
    \A x \in StoryIds : flags[x].is_tagged => TagsOf(x) /= {}

(***************************************************************************)
(* C17.  When the oracle returns no result for a story, the run writes     *)
(* nothing for it (no Summary, no tag, flags left false), does not count   *)
(* it, does not raise, and goes on to the remaining selected stories.      *)
(***************************************************************************)
NullResult(j) ==
    ej[j].pc = "oracle" /\ ej'[j] /= ej[j] /\ ej'[j].pc /= "write"

C17_NullResultSkipsStory ==
    [][ \A j \in EnrichJobs :
          NullResult(j) =>
            /\ etx'[j] = etx[j]
            /\ Head(ej[j].selected) \notin etx'[j].summaries
            /\ Head(ej[j].selected) \notin etx'[j].flagged
            /\ summaries' = summaries
            /\ flags' = flags
            /\ tags' = tags
            /\ story_tags' = story_tags
            /\ ej'[j].count = ej[j].count
            /\ ej'[j].status = "none"
            /\ ej'[j].selected = Tail(ej[j].selected)
            /\ ej'[j].pc = IF Tail(ej[j].selected) = << >> THEN "commit"
                           ELSE "oracle"
      ]_vars

\* a tick that skipped the higher-scored story and went on to enrich the
\* other one
C17_Witness ==
    /\ StoredStories = {1, 2}
    /\ \A x \in StoredStories : summaries[x] = 0
    /\ ej["recovery"].pc = "commit"
    /\ ej["recovery"].count = 1
    /\ etx["recovery"].summaries = {1}
    /\ etx["recovery"].flagged = {1}
    /\ etx["continuous"] = EmptyEtx

(***************************************************************************)
(* C18.  No (story_id, tag_id) pair occurs twice in story_tags after any   *)
(* sequence of enrichment attaches and reorganizer executions, and no      *)
(* attach or re-point runs into the primary key: attaching a tag the       *)
(* story already carries changes nothing.                                  *)
(***************************************************************************)
C18_StoryTagsIsASet ==
    /\ \A r \in StoryIds \X TagIds : story_tags[r] <= 1
    /\ \A j \in EnrichJobs : ej[j].status /= "IntegrityError story_tags_pkey"
    /\ proposals.result /= "IntegrityError story_tags_pkey"

\* a merge was executed and a story carries exactly the target tag
C18_Witness ==
    /\ proposals.status = "executed"
    /\ proposals.result = "success"
    /\ proposals.data.proposal_type = "merge_tags"
    /\ \E x \in StoryIds : \E t \in tags :
         /\ t.slug = normalize_slug(proposals.data.target_tag)
         /\ TagsOf(x) = {t.id}

(***************************************************************************)
(* C19.  No two Tag rows ever share a slug, whatever get_or_create_tag     *)
(* calls and reorganizer executions have run, calls for one new name by    *)
(* two jobs on separate sessions included.                                 *)
(***************************************************************************)
C19_SlugUnique ==
    \A t, u \in tags : t.slug = u.slug => t = u

(***************************************************************************)
(* C20.  A Tag row is deleted, or a story_tags row re-pointed, only by     *)
(* the reorganizer executing a proposal whose status is approved.          *)
(***************************************************************************)
TagDeleted == \E t \in tags : \A u \in tags' : u.id /= t.id
RowRepointed ==
    \E r \in StoryIds \X TagIds : story_tags[r] > 0 /\ story_tags'[r] = 0

C20_OnlyApprovedReorganizes ==
    [][ (TagDeleted \/ RowRepointed) =>
          /\ proposals.status = "approved"
          /\ proposals'.status = "executed"
          /\ ej' = ej
          /\ etx' = etx
      ]_vars

\* a retire or merge has deleted a tag after stories were tagged, and the
\* proposal is closed
C20_Witness ==
    /\ proposals.status = "executed"
    /\ proposals.result = "success"
    /\ proposals.data.proposal_type \in {"merge_tags", "retire_tag"}
    /\ \E x \in StoryIds : flags[x].is_tagged
    /\ \A t \in tags :
         t.slug /= normalize_slug(IF proposals.data.proposal_type = "retire_tag"
                                  THEN proposals.data.tag_name
                                  ELSE NameGo)

(***************************************************************************)
(* C27.  One fetch issues at most max_retries requests; a timeout, a       *)
(* transport error or a 429 before the last attempt is followed by another *)
(* attempt; the first 200 ends the fetch with its payload; and when the    *)
(* attempts are used up the fetch returns None.                            *)
(***************************************************************************)
Retried == FetchErrors \cup {"429"}

C27_BoundedAttempts ==
    /\ fetch.requests <= fetch.max_retries
    /\ fetch.response = "200" => fetch.pc = "done" /\ fetch.result = "payload"
    /\ fetch.result = "payload" => fetch.response = "200"
    /\ (fetch.pc = "done" /\ fetch.response \in Retried) =>
          /\ fetch.requests = fetch.max_retries
          /\ fetch.result = "None"
    /\ fetch.pc = "done" => fetch.result \in {"payload", "None"}

\* three attempts, each timed out or rate limited, and the fetch is over
C27_Witness ==
    /\ fetch.pc = "done"
    /\ fetch.max_retries = MaxRetries
    /\ fetch.requests = MaxRetries
    /\ fetch.response = "429"
    /\ fetch.result = "None"
    /\ fetch.slept > 0

(***************************************************************************)
(* C28.  A status that is neither 200 nor 429 ends the fetch with None:    *)
(* no request and no sleep follows it, and when it answers the first       *)
(* attempt the fetch has issued one request and has not slept.             *)
(***************************************************************************)
C28_OtherStatusNoRetry ==
    fetch.response \in HTTPStatuses \ {"200", "429"} =>
        /\ fetch.pc = "done"
        /\ fetch.result = "None"
        /\ fetch.waited = 0
        /\ fetch.requests = fetch.attempt + 1
        /\ fetch.attempt = 0 => fetch.requests = 1 /\ fetch.slept = 0

\* a 500 on the first of three attempts
C28_Witness ==
    /\ fetch.response = "500"
    /\ fetch.attempt = 0
    /\ fetch.max_retries = MaxRetries
    /\ fetch.pc = "done"

(***************************************************************************)
(* C29.  A 5xx answer is retried until the attempts are used up: a fetch   *)
(* that ended on a 500 has issued max_retries requests.                    *)
(***************************************************************************)
C29_ServerErrorRetried ==
    (fetch.pc = "done" /\ fetch.response = "500") =>
        fetch.requests = fetch.max_retries

(***************************************************************************)
(* C30.  When the request after a 429 on attempt a is issued, the fetch    *)
(* has waited 2 * base_delay * 2^a since that 429.                         *)
(***************************************************************************)
C30_RateLimitDoubleWait ==
    (fetch.pc = "get" /\ fetch.response = "429") =>
        fetch.waited = 2 * backoff_delay(fetch.base_delay, fetch.attempt - 1)


(***************************************************************************)
(* C25.  After a run in auto-apply mode every stored proposal is approved  *)
(* if it is low-risk and pending otherwise; after a run in proposal mode   *)
(* every stored proposal is pending; the run executes nothing and changes  *)
(* no tags or story_tags row.                                              *)
(***************************************************************************)
StoredByRun == {pipeline.stored[i] : i \in 1..Len(pipeline.stored)}

ApprovedIffLowRisk ==
    \A p \in StoredByRun :
        p.status = IF is_low_risk(p) THEN "approved" ELSE "pending"

AllPending == \A p \in StoredByRun : p.status = "pending"

NothingExecuted ==
    /\ \A p \in StoredByRun : p.status /= "executed"
    /\ tags = {}
    /\ \A r \in StoryIds \X TagIds : story_tags[r] = 0

LowRiskAsSpecified(p) ==
    /\ p.proposal_type \in {"merge_tags", "retire_tag"}
    /\ p.affected_stories_count <= agent_auto_approve_max_affected
    /\ p.priority \in {"low", "medium"}

C26_LowRiskPolicy ==
    /\ \A i \in 1..Len(pipeline.proposals_data) :
          is_low_risk(pipeline.proposals_data[i])
             <=> LowRiskAsSpecified(pipeline.proposals_data[i])
    /\ (pipeline.mode = "auto-apply" /\ pipeline.agent_enable_auto_approve) =>
          \A p \in StoredByRun :
              p.status = "approved" <=> LowRiskAsSpecified(p)

\* an enabled auto-apply run over a merge at the limit (approved) and a
\* merge one above it (pending)
C26_Witness ==
    /\ pipeline.mode = "auto-apply"
    /\ pipeline.agent_enable_auto_approve
    /\ \E p \in StoredByRun :
          /\ p.proposal_type = "merge_tags"
          /\ p.affected_stories_count = agent_auto_approve_max_affected
          /\ p.status = "approved"
    /\ \E p \in StoredByRun :
          /\ p.proposal_type = "merge_tags"
          /\ p.priority = "low"
          /\ p.affected_stories_count = agent_auto_approve_max_affected + 1
          /\ p.status = "pending"


(***************************************************************************)
(* C21.  Whatever the interleaving of approve, reject, auto-approve and    *)
(* execute requests, the status of a proposal moves only pending ->        *)
(* approved, pending -> rejected or approved -> executed, and executed_at  *)
(* is set exactly when the status is executed.                             *)
(***************************************************************************)
\* a step that stores a new proposal
StoresProposal ==
    \E data \in AgentShapes : ProposalCreated(data) \/ ProposalAutoApproved(data)

LifecycleEdges ==
    {<<"pending", "approved">>, <<"pending", "rejected">>,
     <<"approved", "executed">>}

C21_StatusLifecycle ==
    [][ /\ (~ StoresProposal /\ proposals'.status /= proposals.status) =>
              <<proposals.status, proposals'.status>> \in LifecycleEdges
        /\ proposals'.executed_at <=> proposals'.status = "executed"
      ]_vars


(***************************************************************************)
(* C22.  An execution of a proposal that is not approved, whose type the   *)
(* reorganizer does not know, or whose data lacks a required field ends in *)
(* ValueError (HTTP 400) and leaves tags, story_tags and the proposal's    *)
(* status as they were.                                                    *)
(***************************************************************************)
LacksRequiredField(data) ==
    IF data.proposal_type = "merge_tags"
    THEN data.source_tags = {} \/ data.target_tag = NoName
    ELSE IF data.proposal_type \in {"create_tag", "retire_tag"}
    THEN data.tag_name = NoName
    ELSE FALSE

NotExecutable(proposal) ==
    \/ proposal.status \in {"pending", "rejected", "executed"}
    \/ proposal.data.proposal_type
          \notin {"merge_tags", "create_tag", "retire_tag"}
    \/ LacksRequiredField(proposal.data)

C22_InvalidExecutionRaises ==
    [][ \A r \in Requests : \A dry_run \in BOOLEAN :
          (/\ proposals.status /= "none"
           /\ NotExecutable(proposals)
           /\ ExecuteRequest(r, dry_run)) =>
              /\ run(proposals, dry_run).result = "ValueError"
              /\ rq'[r].response = "400 ValueError"
              /\ tags' = tags
              /\ story_tags' = story_tags
              /\ proposals'.status = proposals.status
      ]_vars

\* an approved proposal of a type without a branch has been refused, and
\* the tag it names is still there
C22_Witness ==
    /\ proposals.status = "approved"
    /\ proposals.data.proposal_type = "split_tag"
    /\ \E r \in Requests : rq[r].response = "400 ValueError"
    /\ \E t \in tags : t.slug = normalize_slug(proposals.data.tag_name)


(***************************************************************************)
(* C24.  An execution with dry_run = true writes nothing: the tags rows    *)
(* with their usage_count and the story_tags rows are the same afterwards, *)
(* and an approved proposal stays approved with executed_at null.          *)
(***************************************************************************)
C24_DryRunWritesNothing ==
    [][ \A r \in Requests :
          ExecuteRequest(r, TRUE) =>
              /\ tags' = tags
              /\ story_tags' = story_tags
              /\ proposals' = proposals
              /\ (proposals.status = "approved" /\ ~ proposals.executed_at) =>
                    /\ proposals'.status = "approved"
                    /\ ~ proposals'.executed_at
      ]_vars

\* the dry run of an approved merge into a tag that does not exist yet has
\* been answered, and no tag was created or deleted
C24_Witness ==
    /\ proposals.status = "approved"
    /\ ~ proposals.executed_at
    /\ proposals.data.proposal_type = "merge_tags"
    /\ \E r \in Requests : rq[r].response = "200 dry_run"
    /\ \E n \in proposals.data.source_tags :
          \E t \in tags : t.slug = normalize_slug(n)
    /\ \A t \in tags : t.slug /= normalize_slug(proposals.data.target_tag)
    /\ \E x \in StoryIds : \E t \in TagIds : story_tags[<<x, t>>] > 0


(***************************************************************************)
(* C23.  The execution of an approved merge_tags proposal deletes every    *)
(* source tag row, leaves every story that carried a source tag carrying   *)
(* the target tag, once, and sets the target's usage_count to the number   *)
(* of stories that carry the target afterwards.                            *)
(***************************************************************************)
SourceSlugs(data) == {normalize_slug(n) : n \in data.source_tags}

\* the stories that carry a tag of one of the slugs
Carrying(rows, st, slugs) ==
    {x \in StoryIds : \E t \in rows : t.slug \in slugs /\ st[<<x, t.id>>] > 0}

MergeDone(data) ==
    LET target_slug == normalize_slug(data.target_tag)
    IN  /\ \A t \in tags' : t.slug \in SourceSlugs(data) => t.slug = target_slug
        /\ \E t \in tags' : t.slug = target_slug
        /\ Carrying(tags, story_tags, SourceSlugs(data))
              \subseteq Carrying(tags', story_tags', {target_slug})
        /\ \A r \in StoryIds \X TagIds : story_tags'[r] <= 1
        /\ \A t \in tags' :
              t.slug = target_slug =>
                 t.usage_count =
                    Cardinality(Carrying(tags', story_tags', {target_slug}))

C23_MergeMovesStories ==
    [][ \A r \in Requests :
          (/\ proposals.status = "approved"
           /\ proposals.data.proposal_type = "merge_tags"
           /\ ~ LacksRequiredField(proposals.data)
           /\ Carrying(tags, story_tags, SourceSlugs(proposals.data)) /= {}
           /\ ExecuteRequest(r, FALSE)) => MergeDone(proposals.data)
      ]_vars

(***************************************************************************)
(* The HNClients of the process. Each job builds a ScraperService, and     *)
(* each ScraperService an HNClient with a semaphore of its own; the jobs   *)
(* run on one event loop, so their tasks interleave at every await.        *)
(***************************************************************************)
\* a database, scheduler and upstream on which nothing has run
Quiet ==
    /\ hn = [items |-> [i \in Ids |-> RecentStory],
             maxitem |-> InitialMaxItem, curated |-> CuratedIds]
    /\ stories = [i \in Ids |-> 0]
    /\ scraper_state = {}
    /\ tx = [s \in Sessions |-> EmptyTx]
    /\ bf = BackfillIdle
    /\ ct = ContinuousIdle
    /\ sched = [backfill_complete |-> FALSE, hash_seed |-> 1]
    /\ lk = [p \in Callers |-> CallerInit(1, 1)]
    /\ advisory_locks = {}
    /\ EnrichEmpty
    /\ oracle = [outage |-> FALSE, outages |-> 0, broken |-> {}]

\* tasks = [fetch_and_filter(iid) for iid in item_ids]; asyncio.gather(*tasks)
GetItemsBatch(c) ==
    /\ \A t \in Tasks : hc[c].task[t].pc \in {"idle", "done"}
    /\ hc' = [hc EXCEPT ![c].task =
                [t \in Tasks |-> [pc |-> "acquire", attempt |-> 0]]]
    /\ UNCHANGED <<wvars, svars, evars, avars, catalog, query>>

\* async with self.semaphore: enters when a permit is free
SemaphoreAcquire(c, t) ==
    /\ hc[c].task[t].pc = "acquire"
    /\ hc[c].semaphore > 0
    /\ hc' = [hc EXCEPT ![c].semaphore = @ - 1, ![c].task[t].pc = "get"]
    /\ UNCHANGED <<wvars, svars, evars, avars, catalog, query>>

\* leaving the `async with` block gives the permit back
release(client, t) ==
    [client EXCEPT !.semaphore = @ + 1, !.task[t] = [pc |-> "done", attempt |-> 0]]

\* session.get(url) is answered: return, or sleep with the permit held
ClientGet(c, t, response) ==
    /\ hc[c].task[t].pc = "get"
    /\ LET next == after_response(response)
       IN  hc' = [hc EXCEPT ![c] =
                    IF next \in {"return", "return_none"}
                    THEN release(@, t)
                    ELSE [@ EXCEPT !.task[t].pc = "sleep"]]
    /\ UNCHANGED <<wvars, svars, evars, avars, catalog, query>>

\* the sleep ends: the next iteration of the loop, or `return None` after it
ClientRetry(c, t) ==
    /\ hc[c].task[t].pc = "sleep"
    /\ hc' = [hc EXCEPT ![c] =
                IF in_range(@.task[t].attempt + 1, default_max_retries)
                THEN [@ EXCEPT !.task[t] = [pc |-> "get",
                                            attempt |-> @.attempt + 1]]
                ELSE release(@, t)]
    /\ UNCHANGED <<wvars, svars, evars, avars, catalog, query>>

InitClients ==
    /\ Quiet
    /\ AgentsIdle
    /\ ServiceIdle

NextClients ==
    \E c \in Jobs :
        \/ GetItemsBatch(c)
        \/ \E t \in Tasks :
              \/ SemaphoreAcquire(c, t)
              \/ \E response \in HTTPStatuses \cup FetchErrors :
                    ClientGet(c, t, response)
              \/ ClientRetry(c, t)

SpecClients == InitClients /\ [][NextClients]_vars

\* requests of one client, and of the process, that wait for their answer
InFlightOf(c) == Cardinality({t \in Tasks : hc[c].task[t].pc = "get"})
InFlight == InFlightOf(STATE_BACKFILL) + InFlightOf(STATE_CONTINUOUS)

\* C31: at every instant at most max_concurrent upstream requests are in
\* flight in the process, also while a backfill job and a continuous job run
\* at the same time.
C31_ProcessWideCap == InFlight <= max_concurrent

\* what the code does keep: every client stays within its own semaphore
PerClientCap ==
    \A c \in Jobs :
        /\ InFlightOf(c) <= max_concurrent
        /\ hc[c].semaphore =
             max_concurrent
               - Cardinality({t \in Tasks : hc[c].task[t].pc \in {"get", "sleep"}})

(***************************************************************************)
(* The query surface: GET /api/v1/stories and the advanced-filter listing  *)
(* over StoryRepository.                                                   *)
(***************************************************************************)
\* a subquery that looks at the name alone
name_subquery(cat, level, names) ==
    {s \in QStories : \E t \in cat[s] : t.name \in names}

\* select story_id from story_tags join tags where level = .. and name in ..
level_subquery(cat, level, names) ==
    {s \in QStories : \E t \in cat[s] : t.level = level /\ t.name \in names}

\* `if tag_filter.lN_include: conditions.append(StoryModel.id.in_(subq))`
include_condition(cat, level, names) ==
    IF names = {} THEN {} ELSE {level_subquery(cat, level, names)}

\* `if tag_filter.lN_exclude: conditions.append(~exists(subq))`
exclude_condition(cat, level, names) ==
    IF names = {} THEN {}
    ELSE {QStories \ level_subquery(cat, level, names)}

\* every condition as the set of stories that satisfy it
_build_tag_filter_conditions(cat, tag_filter) ==
    include_condition(cat, 1, tag_filter.l1_include)
      \cup include_condition(cat, 2, tag_filter.l2_include)
      \cup include_condition(cat, 3, tag_filter.l3_include)
      \cup exclude_condition(cat, 1, tag_filter.l1_exclude)
      \cup exclude_condition(cat, 2, tag_filter.l2_exclude)

is_empty(tag_filter) == tag_filter = EmptyFilter

\* .order_by(score.desc()).offset(offset).limit(limit)
page(rows, offset, limit) ==
    SubSeq(rows, offset + 1, Min(offset + limit, Len(rows)))

list_stories(offset, limit) == page(by_score_desc, offset, limit)

list_stories_by_tag_filter(cat, tag_filter, offset, limit) ==
    IF is_empty(tag_filter) THEN list_stories(offset, limit)
    ELSE LET conditions == _build_tag_filter_conditions(cat, tag_filter)
             where(s) == \A c \in conditions : s \in c
         IN  page(SelectSeq(by_score_desc, where), offset, limit)

\* a listing whose limit parameter takes any integer
any_limit(limit) == TRUE

\* limit: int = Query(30, ge=1, le=100)
limit_in_range(limit) == limit >= 1 /\ limit <= MaxLimit

\* GET /api/v1/stories?offset=..&limit=..
ListStories(offset, limit) ==
    /\ query' = [endpoint |-> "list_stories", tag_filter |-> EmptyFilter,
                 offset |-> offset, limit |-> limit,
                 status |-> IF limit_in_range(limit) THEN "200" ELSE "422",
                 stories |-> IF limit_in_range(limit)
                             THEN list_stories(offset, limit) ELSE << >>]
    /\ UNCHANGED <<wvars, svars, evars, avars, hc, catalog>>

\* GET /api/stories/advanced-filter.json with limit: int = 30
AdvancedFilter(tag_filter, offset, limit) ==
    /\ query' = [endpoint |-> "advanced_filter", tag_filter |-> tag_filter,
                 offset |-> offset, limit |-> limit, status |-> "200",
                 stories |-> list_stories_by_tag_filter(catalog, tag_filter,
                                                        offset, limit)]
    /\ UNCHANGED <<wvars, svars, evars, avars, hc, catalog>>

\* story A carries any set of tags, B and C those of the scenario
InitQuery ==
    /\ Quiet
    /\ AgentsIdle
    /\ hc = [c \in Jobs |-> ClientIdle]
    /\ catalog \in {[ScenarioCatalog EXCEPT !["A"] = carried] :
                      carried \in SUBSET QTags}
    /\ query = NoQuery
    /\ WorkersIdle

\* a listing changes nothing, so one request per behaviour is every request
NextQuery ==
    /\ query = NoQuery
    /\ \E offset \in Offsets, limit \in Limits :
          \/ ListStories(offset, limit)
          \/ \E tag_filter \in TagFilters :
                AdvancedFilter(tag_filter, offset, limit)

SpecQuery == InitQuery /\ [][NextQuery]_vars

Range(seq) == {seq[i] : i \in DOMAIN seq}

\* the clauses of the filter, one by one, for one story
IncludeHolds(s, level, names) ==
    names /= {} => \E t \in catalog[s] : t.level = level /\ t.name \in names
ExcludeHolds(s, level, names) ==
    names /= {} => ~ \E t \in catalog[s] : t.level = level /\ t.name \in names
EveryClauseHolds(s, f) ==
    /\ IncludeHolds(s, 1, f.l1_include)
    /\ IncludeHolds(s, 2, f.l2_include)
    /\ IncludeHolds(s, 3, f.l3_include)
    /\ ExcludeHolds(s, 1, f.l1_exclude)
    /\ ExcludeHolds(s, 2, f.l2_exclude)

\* a filter listing whose page holds every story there is
WholeListing ==
    /\ query.endpoint = "advanced_filter"
    /\ query.offset = 0
    /\ query.limit >= Cardinality(QStories)

\* C32: the tag filter returns a story exactly when every non-empty clause
\* holds for it: an include list of a level needs a carried tag of that level
\* with a listed name, an exclude list of a level forbids one; the empty
\* filter returns every story.
C32_FilterClauses ==
    WholeListing =>
        /\ Range(query.stories) =
             {s \in QStories : EveryClauseHolds(s, query.tag_filter)}
        /\ query.tag_filter = EmptyFilter =>
             Range(query.stories) = QStories

\* the scenario: l1_include=[Tech] with l2_exclude=[Finance] returns {A}
C32_Witness ==
    /\ WholeListing
    /\ catalog = ScenarioCatalog
    /\ query.tag_filter = [EmptyFilter EXCEPT !.l1_include = {"Tech"},
                                              !.l2_exclude = {"Finance"}]
    /\ query.stories = <<"A">>

\* l1_include=[Tech, Business] with l2_include=[AI/ML] returns {A, C}
ScenarioTwoLevels ==
    /\ WholeListing
    /\ catalog = ScenarioCatalog
    /\ query.tag_filter = [EmptyFilter EXCEPT !.l1_include = {"Tech", "Business"},
                                              !.l2_include = {"AI/ML"}]
    /\ query.stories = <<"A", "C">>

\* the empty filter returns {A, B, C}
ScenarioEmptyFilter ==
    /\ WholeListing
    /\ catalog = ScenarioCatalog
    /\ query.tag_filter = EmptyFilter
    /\ query.stories = <<"A", "B", "C">>

\* C33: every listing operation of the query surface returns at most 100
\* stories per request (MaxLimit in the model), whatever limit the client
\* sends.
C33_ListingCeiling == Len(query.stories) <= MaxLimit

\* what holds for GET /api/v1/stories alone
ListStoriesCeiling ==
    query.endpoint = "list_stories" => Len(query.stories) <= MaxLimit

(***************************************************************************)
(* SchedulerService: start() registers the four jobs; every tick calls the *)
(* job's coroutine, whose body runs inside `try: ... except Exception`.    *)
(***************************************************************************)
\* what the body of a job does in one tick: it returns with a status or it
\* raises somewhere inside the try block
BodyResults(job) ==
    [kind : {"raise"}, value : Exceptions]
      \cup [kind : {"return"},
            value : IF job = "enhanced_backfill"
                    THEN {"already_completed", "completed", "in_progress"}
                    ELSE {"done"}]

\* a job whose body runs outside any try block
except_nothing(error) == FALSE

\* `except Exception as e: logger.error(...)`
except_exception(error) == error \in Exceptions

\* what the job's coroutine hands to the scheduler
job_outcome(job, backfill_complete, body) ==
    IF job = "enhanced_backfill" /\ backfill_complete THEN "skipped"
    ELSE IF body.kind = "return" THEN "returned"
    ELSE IF except_exception(body.value) THEN "logged"
    ELSE "propagated"

\* SchedulerService.start: add_job for the four jobs, scheduler.start()
SchedulerStart ==
    /\ ~ scheduler.running
    /\ scheduler' = [scheduler EXCEPT !.running = TRUE, !.jobs = JobIds]
    /\ UNCHANGED <<svars, evars, avars, qvars, ar, ov, xq>>

\* a trigger of a registered job fires
JobTick(job, body) ==
    /\ scheduler.running
    /\ job \in scheduler.jobs
    /\ Len(scheduler.history) < MaxTicks
    /\ LET outcome == job_outcome(job, scheduler.backfill_complete, body)
       IN  scheduler' =
             [scheduler EXCEPT
                !.history = Append(@, [job |-> job, outcome |-> outcome]),
                !.backfill_complete =
                    \/ @
                    \/ /\ job = "enhanced_backfill"
                       /\ outcome = "returned"
                       /\ body.value \in {"already_completed", "completed"}]
    /\ UNCHANGED <<svars, evars, avars, qvars, ar, ov, xq>>

InitScheduler ==
    /\ Quiet
    /\ AgentsIdle
    /\ ServiceIdle

NextScheduler ==
    \/ SchedulerStart
    \/ \E job \in JobIds : \E body \in BodyResults(job) : JobTick(job, body)

SpecScheduler == InitScheduler /\ [][NextScheduler]_vars

Outcomes(history) == {history[i].outcome : i \in DOMAIN history}

\* C34: an exception raised inside any of the four scheduled jobs is absorbed
\* by the job: it never reaches the scheduler, no job is unregistered, and
\* the ticks of every job still fire afterwards.
C34_JobsAbsorbExceptions ==
    scheduler.running =>
        /\ "propagated" \notin Outcomes(scheduler.history)
        /\ scheduler.jobs = JobIds
        /\ Len(scheduler.history) < MaxTicks =>
             \A job \in JobIds :
                ENABLED JobTick(job, [kind |-> "return", value |-> "done"])

\* every job has raised once, and a tick of a job ran after another job's
\* exception was logged
C34_Witness ==
    /\ Len(scheduler.history) = MaxTicks
    /\ scheduler.history[1] =
         [job |-> "weekly_agent_analysis", outcome |-> "logged"]
    /\ scheduler.history[2] =
         [job |-> "enhanced_backfill", outcome |-> "logged"]
    /\ scheduler.history[3] =
         [job |-> "continuous_scrape", outcome |-> "returned"]
    /\ scheduler.history[4].job = "enhanced_backfill"
    /\ scheduler.jobs = JobIds

(***************************************************************************)
(* run_analysis_pipeline step by step: every step flushes into the         *)
(* session; the except branch marks the run failed, commits the session    *)
(* and re-raises.                                                          *)
(***************************************************************************)
\* where the run goes once proposal i - 1 is stored
after_store(this, i) ==
    IF i <= Len(this.proposals_data) THEN "store"
    ELSE IF auto_approve_enabled(this.mode, this.enabled)
              /\ Len(this.proposals_data) > 0
    THEN "approve"
    ELSE "complete"

\* where it goes once proposal i - 1 went through Step 4
after_approve(this, i) ==
    IF i <= Len(this.proposals_data) THEN "approve" ELSE "complete"

\* agent_repo.create_run(run_type=mode): the run row is flushed
RunBegin(mode) ==
    /\ ar.pc = "idle"
    /\ ar' = [ar EXCEPT !.pc = "analyze", !.mode = mode,
                        !.flushed.run = "running"]
    /\ UNCHANGED <<svars, evars, avars, qvars, scheduler, ov, xq>>

\* Steps 1 and 2: the analyzer, then in analysis mode complete_run, commit and
\* return, else the proposer
RunAnalyze ==
    /\ ar.pc = "analyze"
    /\ ar' = IF ar.mode = "analysis"
             THEN [ar EXCEPT !.pc = "done",
                             !.flushed.run = "completed",
                             !.committed = [ar.flushed EXCEPT
                                              !.run = "completed"]]
             ELSE [ar EXCEPT !.pc = after_store(ar, 1), !.i = 1]
    /\ UNCHANGED <<svars, evars, avars, qvars, scheduler, ov, xq>>

\* Step 3, one iteration: agent_repo.create_proposal adds and flushes
RunStore ==
    /\ ar.pc = "store"
    /\ ar' = [ar EXCEPT
                !.flushed.proposals =
                    Append(@, create_proposal(ar.proposals_data[ar.i])),
                !.i = IF after_store(ar, ar.i + 1) = "store" THEN ar.i + 1
                      ELSE 1,
                !.pc = after_store(ar, ar.i + 1)]
    /\ UNCHANGED <<svars, evars, avars, qvars, scheduler, ov, xq>>

\* Step 4, one iteration: get_proposal, _is_low_risk, approve_proposal
RunAutoApprove ==
    /\ ar.pc = "approve"
    /\ ar' = [ar EXCEPT
                !.flushed.proposals[ar.i] = auto_approve(ar.mode, ar.enabled, @),
                !.i = ar.i + 1,
                !.pc = after_approve(ar, ar.i + 1)]
    /\ UNCHANGED <<svars, evars, avars, qvars, scheduler, ov, xq>>

\* agent_repo.complete_run, session.commit(), return
RunComplete ==
    /\ ar.pc = "complete"
    /\ ar' = [ar EXCEPT !.pc = "done", !.flushed.run = "completed",
                        !.committed = [ar.flushed EXCEPT !.run = "completed"]]
    /\ UNCHANGED <<svars, evars, avars, qvars, scheduler, ov, xq>>

\* `except Exception: fail_run(run.id, str(e)); session.commit(); raise`.
\* After an error of the database the transaction is aborted, fail_run's
\* SELECT raises and the session closes without a commit.
fail_run_and_commit(this, error) ==
    IF error = "database" THEN this.committed
    ELSE [this.flushed EXCEPT !.run = "failed"]

\* a step inside the try block raises
RunRaise(error) ==
    /\ ar.pc \in {"analyze", "store", "approve", "complete"}
    /\ ar' = [ar EXCEPT !.pc = "raised", !.raised = error,
                        !.raised_at = ar.pc,
                        !.committed = fail_run_and_commit(ar, error)]
    /\ UNCHANGED <<svars, evars, avars, qvars, scheduler, ov, xq>>

InitRun ==
    /\ Quiet
    /\ AgentsIdle
    /\ hc = [c \in Jobs |-> ClientIdle]
    /\ catalog = ScenarioCatalog
    /\ query = NoQuery
    /\ scheduler = SchedulerIdle
    /\ ov = [p \in Callers |-> OverlapIdle]
    /\ xq = [r \in Requests |-> ExecuteIdle]
    /\ ar \in {[RunIdle EXCEPT !.enabled = enabled, !.proposals_data = data] :
                 enabled \in BOOLEAN, data \in ProposerResults}

NextRun ==
    \/ \E mode \in RunModes : RunBegin(mode)
    \/ RunAnalyze
    \/ RunStore
    \/ RunAutoApprove
    \/ RunComplete
    \/ \E error \in ErrorKinds : RunRaise(error)

SpecRun == InitRun /\ [][NextRun]_vars

\* C35: a job that raises in the middle of a transaction has its uncommitted
\* writes rolled back and the exception rethrown; a pipeline run that raises
\* after storing proposals leaves none of them persisted.
C35_RaisedRunPersistsNothing ==
    ar.pc = "raised" => ar.committed.proposals = << >>

\* what does hold: an exception always leaves the run as raised, and one
\* that aborted the transaction leaves nothing behind
AbortedRunPersistsNothing ==
    (ar.pc = "raised" /\ ar.raised = "database") => ar.committed = NoTables

\* a successful run commits exactly what it flushed
CompletedRunPersistsAll ==
    ar.pc = "done" => ar.committed = ar.flushed

(***************************************************************************)
(* Two run_continuous_scrape executions that overlap, each on its own      *)
(* session: the checkpoint row exists, every execution reads maxitem and   *)
(* the row once, then writes batch_end after every batch.                  *)
(***************************************************************************)
\* an UPDATE of the row waits while another transaction holds an uncommitted
\* version of it
UpdateWaits(s, state_type) ==
    \E t \in Sessions \ {s} : \E r \in tx[t].rows : r.state_type = state_type

\* scraper.py 379-411: get_max_item_id (the upstream may have grown),
\* get_or_create_state_with_lock finds the row, the gap
OverlapBegin(p) ==
    /\ ov[p].pc = "idle"
    /\ \E max_item \in hn.maxitem..MaxItem :
          LET state == get_state(p, STATE_CONTINUOUS)
              last_processed == state.current_item_id
              gap == max_item - last_processed
          IN  /\ hn' = [hn EXCEPT !.maxitem = max_item]
              /\ ov' = [ov EXCEPT ![p] =
                          [pc |-> IF gap > 0
                                  THEN ContinuousLoop(last_processed + 1, max_item)
                                  ELSE "curated",
                           max_item |-> max_item,
                           current_id |-> last_processed + 1]]
    /\ UNCHANGED <<evars, avars, qvars, scheduler, ar, xq, stories, scraper_state,
                   tx, bf, ct, sched, lk, advisory_locks>>

\* scraper.py 413-434: the batch, then create_or_update_state(batch_end) and
\* increment_counters, both flushed
OverlapWrite(p) ==
    /\ ov[p].pc = "fetch"
    /\ ~ UpdateWaits(p, STATE_CONTINUOUS)
    /\ LET batch_end == continuous_batch_end(ov[p].current_id,
                                             scraper_continuous_batch_size,
                                             ov[p].max_item)
           batch_ids == ov[p].current_id..batch_end
       IN  /\ tx' = [tx EXCEPT ![p].rows =
                       increment_counters(
                           create_or_update_state(p, STATE_CONTINUOUS,
                                                  batch_end, NoTarget, "active"),
                           STATE_CONTINUOUS, Cardinality(batch_ids), 0)]
           /\ ov' = [ov EXCEPT ![p].pc = "commit",
                               ![p].current_id = batch_end + 1]
    /\ UNCHANGED <<evars, avars, qvars, scheduler, ar, xq, hn, stories,
                   scraper_state, bf, ct, sched, lk, advisory_locks>>

\* scraper.py 435 and the loop test of 412
OverlapCommit(p) ==
    /\ ov[p].pc = "commit"
    /\ scraper_state' = CommitRows(p)
    /\ tx' = [tx EXCEPT ![p] = EmptyTx]
    /\ ov' = [ov EXCEPT ![p].pc = ContinuousLoop(ov[p].current_id,
                                                 ov[p].max_item)]
    /\ UNCHANGED <<evars, avars, qvars, scheduler, ar, xq, hn, stories, bf, ct,
                   sched, lk, advisory_locks>>

\* the continuous row an earlier tick committed, at any checkpoint
InitOverlap ==
    /\ hn = [items |-> [i \in Ids |-> RecentStory],
             maxitem |-> InitialMaxItem, curated |-> CuratedIds]
    /\ stories = [i \in Ids |-> 0]
    /\ tx = [s \in Sessions |-> EmptyTx]
    /\ bf = BackfillIdle
    /\ ct = ContinuousIdle
    /\ sched = [backfill_complete |-> FALSE, hash_seed |-> 1]
    /\ lk = [p \in Callers |-> CallerInit(1, 1)]
    /\ advisory_locks = {}
    /\ EnrichEmpty
    /\ oracle = [outage |-> FALSE, outages |-> 0, broken |-> {}]
    /\ AgentsIdle
    /\ ServiceIdle
    /\ \E checkpoint \in 0..InitialMaxItem :
          scraper_state = {new_state_row(STATE_CONTINUOUS, STATE_CONTINUOUS,
                                         checkpoint)}

NextOverlap ==
    \E p \in Callers :
        \/ OverlapBegin(p)
        \/ OverlapWrite(p)
        \/ OverlapCommit(p)

SpecOverlap == InitOverlap /\ [][NextOverlap]_vars

\* the persisted continuous current_item_id
Checkpoint == CommittedRow(STATE_CONTINUOUS).current_item_id

\* both executions are past their gap loop
OverlapOver == \A p \in Callers : ov[p].pc = "curated"

\* C36: when two run_continuous_scrape executions overlap, for every
\* interleaving of their per-batch writes and commits the persisted
\* continuous current_item_id never decreases and ends at the larger of the
\* two maxitem values.
C36_OverlapKeepsCheckpoint ==
    [][/\ Checkpoint' >= Checkpoint
       /\ OverlapOver' =>
            Checkpoint' = Max(ov'["caller1"].max_item, ov'["caller2"].max_item)]_vars

\* each half on its own
CheckpointNeverDecreases == [][Checkpoint' >= Checkpoint]_vars
CheckpointEndsAtLargest ==
    OverlapOver =>
        Checkpoint = Max(ov["caller1"].max_item, ov["caller2"].max_item)

\* C37: executing an approved merge_tags proposal never deletes the target
\* tag and never takes the target from a story: afterwards the target row
\* exists and every story that carried the target or a source carries the
\* target, also when a source name has the slug of the target name.
C37_MergeKeepsTarget ==
    [][ \A r \in Requests :
          (/\ proposals.status = "approved"
           /\ proposals.data.proposal_type = "merge_tags"
           /\ ~ LacksRequiredField(proposals.data)
           /\ ExecuteRequest(r, FALSE)
           /\ rq'[r].response = "200 executed")
          => LET target_slug == normalize_slug(proposals.data.target_tag)
                 slugs == SourceSlugs(proposals.data) \cup {target_slug}
             IN  /\ \E t \in tags' : t.slug = target_slug
                 /\ Carrying(tags, story_tags, slugs)
                      \subseteq Carrying(tags', story_tags', {target_slug})
      ]_vars

\* the same for merges whose sources all differ in slug from the target
MergeOfDistinctSlugsKeepsTarget ==
    [][ \A r \in Requests :
          (/\ proposals.status = "approved"
           /\ proposals.data.proposal_type = "merge_tags"
           /\ ~ LacksRequiredField(proposals.data)
           /\ normalize_slug(proposals.data.target_tag)
                 \notin SourceSlugs(proposals.data)
           /\ ExecuteRequest(r, FALSE)
           /\ rq'[r].response = "200 executed")
          => LET target_slug == normalize_slug(proposals.data.target_tag)
                 slugs == SourceSlugs(proposals.data) \cup {target_slug}
             IN  /\ \E t \in tags' : t.slug = target_slug
                 /\ Carrying(tags, story_tags, slugs)
                      \subseteq Carrying(tags', story_tags', {target_slug})
      ]_vars

(***************************************************************************)
(* Two POST /proposals/{id}/execute requests on one approved proposal,     *)
(* each on the session orchestrator.execute_proposal opens for it.         *)
(***************************************************************************)
\* the tags rows an execution adds without touching any other row
inserted_only(done) ==
    IF /\ done.deleted = {}
       /\ done.story_tags = story_tags
       /\ tags \subseteq done.tags
    THEN {t.slug : t \in done.tags \ tags}
    ELSE {}

\* TagReorganizerAgent.run up to its status check, on a plain SELECT
ExecuteCheck(r) ==
    /\ xq[r].pc = "idle"
    /\ xq' = [xq EXCEPT ![r] =
                IF is_approved(proposals) THEN [@ EXCEPT !.pc = "run"]
                ELSE [@ EXCEPT !.pc = "done", !.response = "400 ValueError"]]
    /\ UNCHANGED <<svars, evars, avars, qvars, scheduler, ar, ov>>

\* the dispatch of run(). A row it inserts is flushed and stays invisible to
\* the other session until the commit; statements that update or delete
\* rows wait for the locks of the other session and take effect in the step
\* that commits.
ExecuteRun(r) ==
    /\ xq[r].pc = "run"
    /\ LET done == reorganize(proposals.data, FALSE)
       IN  /\ done.result /= "ids_exhausted"
           /\ xq' = [xq EXCEPT ![r].pc = "commit",
                               ![r].pending = inserted_only(done),
                               ![r].result = done.result]
    /\ UNCHANGED <<svars, evars, avars, qvars, scheduler, ar, ov>>

\* the rows of a flushed insert, with the ids the sequence gave them
RECURSIVE insert_rows(_, _)
insert_rows(slugs, rows) ==
    IF slugs = {} THEN rows
    ELSE LET slug == CHOOSE s \in slugs : TRUE
             used == UsedTagIds \cup {t.id : t \in rows}
         IN  insert_rows(slugs \ {slug},
                         rows \cup {[id |-> next_tag_id(used), slug |-> slug,
                                     usage_count |-> 0]})

\* what the session holds when it reaches the commit
executed(r) ==
    IF xq[r].pending /= {}
    THEN [tags |-> insert_rows(xq[r].pending, tags), story_tags |-> story_tags,
          deleted |-> {}, result |-> xq[r].result]
    ELSE reorganize(proposals.data, FALSE)

\* mark_proposal_executed, session.commit() and the handler's answer
ExecuteCommit(r) ==
    /\ xq[r].pc = "commit"
    /\ Cardinality(TagIds \ UsedTagIds) >= Cardinality(xq[r].pending)
    /\ LET done == executed(r)
           marked == mark_proposal_executed(proposals, done.result, FALSE)
       IN  /\ done.result /= "ids_exhausted"
           /\ ~ ForeignKeyWaits(done.deleted)
           /\ tags' = done.tags
           /\ story_tags' = done.story_tags
           /\ proposals' = marked
           /\ xq' = [xq EXCEPT
                       ![r].pc = "done",
                       ![r].pending = {},
                       ![r].result = done.result,
                       ![r].wrote = done.tags /= tags
                                       \/ done.story_tags /= story_tags,
                       ![r].marked = marked.status = "executed"
                                        /\ done.result \notin ReorganizerErrors
                                        /\ done.result /= "ValueError",
                       ![r].response = execute_response(done.result, FALSE)]
    /\ UNCHANGED <<svars, avars, qvars, scheduler, ar, ov, summaries, flags,
                   etx, ej, oracle>>

\* every story is enriched; the tag Web exists, the tag Go may; one proposal
\* is approved and not executed
InitExecute ==
    /\ hn = [items |-> [i \in Ids |-> RecentStory],
             maxitem |-> InitialMaxItem, curated |-> CuratedIds]
    /\ stories = [i \in Ids |-> IF i \in StoryIds THEN 1 ELSE 0]
    /\ scraper_state = {}
    /\ tx = [s \in Sessions |-> EmptyTx]
    /\ bf = BackfillIdle
    /\ ct = ContinuousIdle
    /\ sched = [backfill_complete |-> FALSE, hash_seed |-> 1]
    /\ lk = [p \in Callers |-> CallerInit(1, 1)]
    /\ advisory_locks = {}
    /\ summaries = [x \in StoryIds |-> 1]
    /\ flags = [x \in StoryIds |-> [is_summarized |-> TRUE, is_tagged |-> TRUE]]
    /\ tags \in {{[id |-> 1, slug |-> normalize_slug(NameWeb), usage_count |-> 1]},
                 {[id |-> 1, slug |-> normalize_slug(NameWeb), usage_count |-> 1],
                  [id |-> 2, slug |-> normalize_slug(NameGo), usage_count |-> 1]}}
    /\ story_tags \in {st \in [StoryIds \X TagIds -> {0, 1}] :
                          \A x \in StoryIds \X TagIds :
                             x[2] \notin {t.id : t \in tags} => st[x] = 0}
    /\ proposals \in {[status |-> "approved", data |-> data, result |-> "none",
                       executed_at |-> FALSE] : data \in AgentShapes}
    /\ etx = [j \in EnrichJobs |-> EmptyEtx]
    /\ ej = [j \in EnrichJobs |-> EnrichIdle]
    /\ oracle = [outage |-> FALSE, outages |-> 0, broken |-> {}]
    /\ AgentsIdle
    /\ ServiceIdle

NextExecute ==
    \E r \in Requests :
        \/ ExecuteCheck(r)
        \/ ExecuteRun(r)
        \/ ExecuteCommit(r)

SpecExecute == InitExecute /\ [][NextExecute]_vars

\* C38: when two execute requests for the same approved proposal run at the
\* same time on separate sessions, the proposal's mutation is applied at
\* most once: at most one of them writes tags or story_tags rows and marks
\* the proposal executed.
C38_AppliedAtMostOnce ==
    Cardinality({r \in Requests : xq[r].wrote \/ xq[r].marked}) <= 1

\* each half on its own
WrittenAtMostOnce == Cardinality({r \in Requests : xq[r].wrote}) <= 1
MarkedAtMostOnce == Cardinality({r \in Requests : xq[r].marked}) <= 1

\* one request after the other: the second is refused
SerialExecutionRefused ==
    \A r, q \in Requests :
        (xq[r].pc = "done" /\ xq[r].marked /\ xq[q].pc = "idle")
           => ENABLED ExecuteCheck(q) /\ ~ is_approved(proposals)

(***************************************************************************)
(* The scraping jobs over an upstream one of whose live stories may fail   *)
(* to be fetched, with ticks that keep firing and steps that do not raise. *)
(***************************************************************************)
\* the story whose get_item may come back None; it is in no curated list
FlakyIds == {i \in Ids \ CuratedIds : i > InitialMaxItem}

InitCheckpoint ==
    /\ hn \in {[items |-> [i \in Ids |-> IF i = x THEN FlakyStory
                                        ELSE RecentStory],
                maxitem |-> InitialMaxItem, curated |-> CuratedIds] :
                  x \in FlakyIds}
    /\ stories = [i \in Ids |-> 0]
    /\ scraper_state = {}
    /\ tx = [s \in Sessions |-> EmptyTx]
    /\ bf = BackfillIdle
    /\ ct = ContinuousIdle
    /\ sched = [backfill_complete |-> FALSE, hash_seed |-> 1]
    /\ lk = [p \in Callers |-> CallerInit(1, 1)]
    /\ advisory_locks = {}
    /\ EnrichEmpty
    /\ AgentsIdle
    /\ ServiceIdle
    /\ oracle = [outage |-> FALSE, outages |-> 0, broken |-> {}]

NextCheckpoint ==
    \/ UpstreamMint
    \/ BackfillJobSkip
    \/ BackfillResume
    \/ BackfillStartFresh
    \/ BackfillKernelFetch
    \/ BackfillWrite
    \/ BackfillCommit
    \/ BackfillFinish
    \/ BackfillReturn
    \/ ContinuousBegin
    \/ ContinuousKernelFetch
    \/ ContinuousWrite
    \/ ContinuousCommit
    \/ CuratedFetch
    \/ CuratedWrite
    \/ ContinuousJobCommit
    \/ ContinuousReturn

\* the interval triggers fire for ever and every await of a job returns
SpecCheckpoint ==
    /\ InitCheckpoint
    /\ [][NextCheckpoint]_vars
    /\ WF_vars(BackfillJobSkip)
    /\ WF_vars(BackfillResume)
    /\ WF_vars(BackfillStartFresh)
    /\ WF_vars(BackfillKernelFetch)
    /\ WF_vars(BackfillWrite)
    /\ WF_vars(BackfillCommit)
    /\ WF_vars(BackfillFinish)
    /\ WF_vars(BackfillReturn)
    /\ WF_vars(ContinuousBegin)
    /\ WF_vars(ContinuousKernelFetch)
    /\ WF_vars(ContinuousWrite)
    /\ WF_vars(ContinuousCommit)
    /\ WF_vars(CuratedFetch)
    /\ WF_vars(CuratedWrite)
    /\ WF_vars(ContinuousJobCommit)
    /\ WF_vars(ContinuousReturn)

\* a story the upstream holds, whether or not every fetch of it succeeds
Live(i) == i <= hn.maxitem /\ hn.items[i].type = "story" /\ ~ hn.items[i].dead

\* the id the continuous row was created with
ContinuousInitialId ==
    ContinuousRow.current_item_id - ContinuousRow.items_processed

BehindCheckpoint(i) ==
    /\ ContinuousRow /= NoRow
    /\ ContinuousInitialId < i
    /\ i <= ContinuousRow.current_item_id

\* C39: no live story is lost behind the continuous checkpoint: every live
\* upstream story above the id the continuous state was initialised with and
\* at or below the persisted current_item_id is eventually stored, even if
\* its fetch failed when its batch was walked.
C39_NoStoryLostBehindCheckpoint ==
    \A i \in Ids : (Live(i) /\ BehindCheckpoint(i)) ~> (i \in StoredIds)

\* the same for the stories whose fetches all succeed
ServedStoryBehindCheckpointStored ==
    \A i \in Ids : (Served(i) /\ BehindCheckpoint(i)) ~> (i \in StoredIds)

\* a tick has ended with the checkpoint past a live story that is not stored
LostBehindCheckpoint ==
    \E i \in Ids : /\ Live(i) /\ BehindCheckpoint(i) /\ i \notin StoredIds
                   /\ ct.pc = "idle" /\ bf.pc = "idle"
                   /\ ContinuousRow.current_item_id = hn.maxitem

(***************************************************************************)
(* The backfill job on its own: ticks keep firing and no step raises.      *)
(***************************************************************************)
InitBackfill ==
    /\ hn \in [items : Upstreams, maxitem : 1..InitialMaxItem,
               curated : {CuratedIds}]
    /\ stories = [i \in Ids |-> 0]
    /\ scraper_state = {}
    /\ tx = [s \in Sessions |-> EmptyTx]
    /\ bf = BackfillIdle
    /\ ct = ContinuousIdle
    /\ sched = [backfill_complete |-> FALSE, hash_seed |-> 1]
    /\ lk = [p \in Callers |-> CallerInit(1, 1)]
    /\ advisory_locks = {}
    /\ EnrichEmpty
    /\ AgentsIdle
    /\ ServiceIdle
    /\ oracle = [outage |-> FALSE, outages |-> 0, broken |-> {}]

NextBackfill ==
    \/ UpstreamMint
    \/ BackfillJobSkip
    \/ BackfillResume
    \/ BackfillStartFresh
    \/ BackfillKernelFetch
    \/ BackfillWrite
    \/ BackfillCommit
    \/ BackfillFinish
    \/ BackfillReturn

\* the interval trigger fires for ever and every await of the job returns
SpecBackfill ==
    /\ InitBackfill
    /\ [][NextBackfill]_vars
    /\ WF_vars(BackfillJobSkip)
    /\ WF_vars(BackfillResume)
    /\ WF_vars(BackfillStartFresh)
    /\ WF_vars(BackfillKernelFetch)
    /\ WF_vars(BackfillWrite)
    /\ WF_vars(BackfillCommit)
    /\ WF_vars(BackfillFinish)
    /\ WF_vars(BackfillReturn)

CeilDiv(a, b) == (a + b - 1) \div b

BackfillCompleted == BackfillRow /= NoRow /\ BackfillRow.status = "completed"

\* one batch of the loop: the local current_id after it
BatchStep ==
    (bf.pc = "write" /\ bf'.pc = "commit") =>
        /\ bf'.current_id < bf.current_id
        /\ bf'.current_id = Max(0, bf.current_id - scraper_backfill_batch_size)

\* the commit of one batch: the persisted current_item_id after it, and the
\* id the backfill started from, current_item_id + items_processed
BatchCommitStep ==
    (bf.pc = "commit" /\ bf'.pc /= "commit" /\ BackfillRow /= NoRow) =>
        /\ BackfillRow'.current_item_id < BackfillRow.current_item_id
        /\ BackfillRow'.current_item_id + BackfillRow'.items_processed
             = BackfillStartId

\* every batch but the one that reaches id 0 holds batch_size ids, so the
\* batches committed so far are ceil(items_processed / batch_size)
BatchesCommitted ==
    CeilDiv(BackfillRow.items_processed, scraper_backfill_batch_size)

\* C40: the backfill terminates: for every starting maxitem and batch size,
\* while backfill ticks keep firing and no batch raises, the status becomes
\* completed after at most ceil(maxitem / batch_size) batches over all the
\* ticks, current_item_id strictly decreases at every batch and never goes
\* below 0.
C40_BackfillTerminates ==
    /\ <>BackfillCompleted
    /\ [][BatchStep /\ BatchCommitStep]_vars
    /\ [](BackfillRow /= NoRow =>
            /\ BackfillRow.current_item_id >= 0
            /\ BackfillStartId <= hn.maxitem
            /\ BatchesCommitted <=
                 CeilDiv(BackfillStartId, scraper_backfill_batch_size))

\* a backfill over every id, finished in a tick that resumed it
C40_Witness ==
    /\ BackfillCompleted
    /\ BackfillRow.current_item_id = 0
    /\ BackfillRow.items_processed = MaxItem
    /\ BatchesCommitted = CeilDiv(MaxItem, scraper_backfill_batch_size)
    /\ bf.pc = "done"
    /\ bf.resumed

=============================================================================
